---- MODULE Spec2Model ----
(***************************************************************************)
(* A model of the MetaDat library (apaichon/metadat-go): the schema        *)
(* grammar parser, the type inferencer, the value parser, the value        *)
(* writer and the validator, with the Parser and Writer objects that hold  *)
(* a schema between calls.                                                 *)
(*                                                                         *)
(* Text is modelled character by character: a Go string is a sequence of   *)
(* one-character strings, so that splitting, trimming, prefix tests and    *)
(* number formatting are computed the way the code computes them.          *)
(***************************************************************************)
EXTENDS Integers, Sequences, FiniteSets

(***************************************************************************)
(* Go's strings package, on sequences of characters.  Indexes are Go's     *)
(* (0-based, -1 for "not found"); Slice(s, lo, hi) is s[lo:hi].            *)
(***************************************************************************)
IsSpaceCh(c) ==
    c \in {" ", "\t", "\n", "\r"}

RECURSIVE TrimLeftSpace(_)
TrimLeftSpace(s) ==
    IF s = <<>> THEN s
    ELSE IF IsSpaceCh(Head(s)) THEN TrimLeftSpace(Tail(s))
    ELSE s

RECURSIVE TrimRightSpace(_)
TrimRightSpace(s) ==
    IF s = <<>> THEN s
    ELSE IF IsSpaceCh(s[Len(s)]) THEN TrimRightSpace(SubSeq(s, 1, Len(s) - 1))
    ELSE s

TrimSpace(s) ==
    TrimRightSpace(TrimLeftSpace(s))

Slice(s, lo, hi) ==
    SubSeq(s, lo + 1, hi)

HasPrefix(s, p) ==
    Len(s) >= Len(p) /\ SubSeq(s, 1, Len(p)) = p

HasSuffix(s, p) ==
    Len(s) >= Len(p) /\ SubSeq(s, Len(s) - Len(p) + 1, Len(s)) = p

TrimPrefix(s, p) ==
    IF HasPrefix(s, p) THEN SubSeq(s, Len(p) + 1, Len(s)) ELSE s

TrimSuffix(s, p) ==
    IF HasSuffix(s, p) THEN SubSeq(s, 1, Len(s) - Len(p)) ELSE s

Least(S) ==
    CHOOSE i \in S : \A j \in S : i <= j

FirstOf(hits) ==
    IF hits = {} THEN -1 ELSE Least(hits)

(* strings.Index: the first position at which sep occurs in s. *)
Index(s, sep) ==
    FirstOf({i \in 0..(Len(s) - Len(sep)) : SubSeq(s, i + 1, i + Len(sep)) = sep})

Contains(s, sep) ==
    Index(s, sep) # -1

RECURSIVE Split(_, _)
SplitAt(s, sep, i) ==
    IF i = -1 THEN <<s>>
    ELSE <<Slice(s, 0, i)>> \o Split(Slice(s, i + Len(sep), Len(s)), sep)

Split(s, sep) ==
    SplitAt(s, sep, Index(s, sep))

RECURSIVE Join(_, _)
Join(parts, sep) ==
    IF parts = <<>> THEN <<>>
    ELSE IF Len(parts) = 1 THEN parts[1]
    ELSE parts[1] \o sep \o Join(Tail(parts), sep)

RECURSIVE Repeat(_, _)
Repeat(s, n) ==
    IF n <= 0 THEN <<>> ELSE s \o Repeat(s, n - 1)

RECURSIVE TrimRightNewlines(_)
TrimRightNewlines(s) ==
    IF s = <<>> THEN s
    ELSE IF s[Len(s)] = "\n" THEN TrimRightNewlines(SubSeq(s, 1, Len(s) - 1))
    ELSE s

(* The byte order of Go's string comparison, for the characters in use. *)
CharOrder ==
    <<"\t", "\n", " ", "+", "-", ".", "0", "1", "2", "3", "4", "5", "6", "7",
      "8", "9", ":", "<", ">", "[", "]", "a", "b", "c", "d", "e", "f", "g",
      "h", "i", "l", "m", "n", "o", "p", "r", "s", "t", "u", "x", "y", "z",
      "{", "|", "}">>

CharRank(c) ==
    CHOOSE i \in 1..Len(CharOrder) : CharOrder[i] = c

RECURSIVE StrLess(_, _)
StrLess(a, b) ==
    IF b = <<>> THEN FALSE
    ELSE IF a = <<>> THEN TRUE
    ELSE IF Head(a) = Head(b) THEN StrLess(Tail(a), Tail(b))
    ELSE CharRank(Head(a)) < CharRank(Head(b))

(* The in-place exchange sort the code uses for its alphabetical fallbacks: *)
(* the result is the ascending arrangement of the names.                    *)
RECURSIVE SortNames(_)
LeastFirst(names, least) ==
    <<least>> \o SortNames(names \ {least})

SortNames(names) ==
    IF names = {} THEN <<>>
    ELSE LeastFirst(names, CHOOSE n \in names : \A m \in names \ {n} : StrLess(n, m))

(***************************************************************************)
(* Numbers.  A Go int is an integer.  A float64 is held as its shortest    *)
(* decimal, m * 10^(-d), m an integer and d >= 0, with m not a multiple of *)
(* ten unless d = 0.                                                       *)
(***************************************************************************)
DigitChars ==
    <<"0", "1", "2", "3", "4", "5", "6", "7", "8", "9">>

IsDigit(c) ==
    \E i \in 1..10 : DigitChars[i] = c

DigitVal(c) ==
    (CHOOSE i \in 1..10 : DigitChars[i] = c) - 1

RECURSIVE Pow10(_)
Pow10(n) ==
    IF n <= 0 THEN 1 ELSE 10 * Pow10(n - 1)

RECURSIVE FormatNat(_)
FormatNat(n) ==
    IF n < 10 THEN <<DigitChars[n + 1]>>
    ELSE FormatNat(n \div 10) \o <<DigitChars[(n % 10) + 1]>>

Abs(n) ==
    IF n < 0 THEN -n ELSE n

(* %v of a Go int: %d. *)
FormatInt(n) ==
    IF n < 0 THEN <<"-">> \o FormatNat(-n) ELSE FormatNat(n)

RECURSIVE StripZeros(_)
StripZeros(ds) ==
    IF Len(ds) > 1 /\ ds[Len(ds)] = "0" THEN StripZeros(SubSeq(ds, 1, Len(ds) - 1))
    ELSE ds

(* The two-digit exponent of the 'e' form. *)
ExpText(ex) ==
    IF Len(ex) < 2 THEN <<"0">> \o ex ELSE ex

(* The shortest digits digs of a number whose decimal point stands after   *)
(* dp of them.                                                             *)
FormatShortest(sign, digs, nd, dp) ==
    IF dp - 1 < -4 \/ dp - 1 >= 6
    THEN sign \o <<digs[1]>>
              \o (IF nd > 1 THEN <<".">> \o SubSeq(digs, 2, nd) ELSE <<>>)
              \o <<"e">> \o (IF dp - 1 < 0 THEN <<"-">> ELSE <<"+">>)
              \o ExpText(FormatNat(Abs(dp - 1)))
    ELSE IF dp <= 0
    THEN sign \o <<"0", ".">> \o Repeat(<<"0">>, -dp) \o digs
    ELSE IF dp >= nd
    THEN sign \o digs \o Repeat(<<"0">>, dp - nd)
    ELSE sign \o SubSeq(digs, 1, dp) \o <<".">> \o SubSeq(digs, dp + 1, nd)

FormatDigits(m, d, all, digs) ==
    FormatShortest(IF m < 0 THEN <<"-">> ELSE <<>>, digs, Len(digs), Len(all) - d)

(* %v of a float64: strconv's 'g' format with the shortest digits, which  *)
(* switches to the exponent form when the decimal exponent is below -4 or *)
(* at least 6.                                                           *)
FormatFloat(m, d) ==
    IF m = 0 THEN <<"0">>
    ELSE FormatDigits(m, d, FormatNat(Abs(m)), StripZeros(FormatNat(Abs(m))))

RECURSIVE DigitsValue(_, _)
DigitsValue(ds, acc) ==
    IF ds = <<>> THEN acc ELSE DigitsValue(Tail(ds), 10 * acc + DigitVal(Head(ds)))

AllDigits(s) ==
    s # <<>> /\ \A i \in 1..Len(s) : IsDigit(s[i])

IsNegative(s) ==
    s # <<>> /\ Head(s) = "-"

Unsigned(s) ==
    IF s # <<>> /\ Head(s) \in {"-", "+"} THEN Tail(s) ELSE s

SignedDigits(neg, body) ==
    IF AllDigits(body)
    THEN [ok |-> TRUE, n |-> IF neg THEN -DigitsValue(body, 0) ELSE DigitsValue(body, 0)]
    ELSE [ok |-> FALSE, n |-> 0]

(* strconv.ParseInt(s, 10, 64): an optional sign and decimal digits.  The *)
(* texts of the model stay far below 2^63, where the range check starts.  *)
ParseInt(s) ==
    SignedDigits(IsNegative(s), Unsigned(s))

RECURSIVE NormFloat(_, _)
NormFloat(m, d) ==
    IF d > 0 /\ m % 10 = 0 THEN NormFloat(m \div 10, d - 1) ELSE [m |-> m, d |-> d]

FloatOf(neg, mag) ==
    [ok |-> TRUE, m |-> IF neg THEN -mag.m ELSE mag.m, d |-> mag.d]

FloatDigits(neg, digits, shift) ==
    IF AllDigits(digits)
    THEN FloatOf(neg, IF shift >= 0
                      THEN [m |-> DigitsValue(digits, 0) * Pow10(shift), d |-> 0]
                      ELSE NormFloat(DigitsValue(digits, 0), -shift))
    ELSE [ok |-> FALSE, m |-> 0, d |-> 0]

FloatMantissa(neg, mant, pi, e) ==
    IF ~e.ok THEN [ok |-> FALSE, m |-> 0, d |-> 0]
    ELSE IF pi = -1 THEN FloatDigits(neg, mant, e.n)
    ELSE FloatDigits(neg, Slice(mant, 0, pi) \o Slice(mant, pi + 1, Len(mant)),
                     e.n - (Len(mant) - pi - 1))

FloatBody(neg, body, ei) ==
    IF ei = -1 THEN FloatMantissa(neg, body, Index(body, <<".">>), [ok |-> TRUE, n |-> 0])
    ELSE FloatMantissa(neg, Slice(body, 0, ei), Index(Slice(body, 0, ei), <<".">>),
                       ParseInt(Slice(body, ei + 1, Len(body))))

(* strconv.ParseFloat on decimal text: sign, digits, an optional fraction *)
(* and an optional decimal exponent.                                       *)
ParseFloat(s) ==
    FloatBody(IsNegative(s), Unsigned(s), Index(Unsigned(s), <<"e">>))

(* strconv.ParseBool. *)
ParseBool(s) ==
    IF s \in {<<"1">>, <<"t">>, <<"T">>, <<"T", "R", "U", "E">>, <<"t", "r", "u", "e">>,
              <<"T", "r", "u", "e">>}
    THEN [ok |-> TRUE, b |-> TRUE]
    ELSE IF s \in {<<"0">>, <<"f">>, <<"F">>, <<"F", "A", "L", "S", "E">>,
                   <<"f", "a", "l", "s", "e">>, <<"F", "a", "l", "s", "e">>}
    THEN [ok |-> TRUE, b |-> FALSE]
    ELSE [ok |-> FALSE, b |-> FALSE]

(***************************************************************************)
(* The type model.  A Go map is a function on its key set; a nil pointer   *)
(* to a FieldType is NoType.                                               *)
(***************************************************************************)
EmptyMap ==
    <<>>

MapPut(m, k, v) ==
    [x \in (DOMAIN m) \cup {k} |-> IF x = k THEN v ELSE m[x]]

NoType ==
    [Type |-> "nil"]

(* type FieldType struct, with every field at its zero value but Type. *)
FieldType(t) ==
    [Type |-> t, ElementType |-> NoType, ObjectFields |-> EmptyMap,
     ObjectOrder |-> <<>>, Name |-> <<>>]

ZeroFieldType ==
    FieldType("")

(* reading a map of FieldType at a key: the zero value when the key is absent. *)
FieldAt(m, k) ==
    IF k \in DOMAIN m THEN m[k] ELSE ZeroFieldType

(* type Schema struct. *)
Schema(fields, order) ==
    [Fields |-> fields, FieldOrder |-> order]

ScalarNames ==
    {"string", "int", "int32", "int64", "float32", "float64", "bool"}

(* The spelling of a Type name. *)
TypeText(t) ==
    CASE t = "string"  -> <<"s", "t", "r", "i", "n", "g">>
      [] t = "int"     -> <<"i", "n", "t">>
      [] t = "int32"   -> <<"i", "n", "t", "3", "2">>
      [] t = "int64"   -> <<"i", "n", "t", "6", "4">>
      [] t = "float32" -> <<"f", "l", "o", "a", "t", "3", "2">>
      [] t = "float64" -> <<"f", "l", "o", "a", "t", "6", "4">>
      [] t = "bool"    -> <<"b", "o", "o", "l">>
      [] t = "array"   -> <<"a", "r", "r", "a", "y">>
      [] t = "object"  -> <<"o", "b", "j", "e", "c", "t">>
      [] OTHER         -> <<>>

isSimpleType(t) ==
    t \in ScalarNames

(***************************************************************************)
(* The schema grammar parser.                                              *)
(***************************************************************************)
(* The value of the loop's depth counter when it reaches character i: the *)
(* opening braces before it less the closing ones.                        *)
depthAt(objectStr, i) ==
    Cardinality({j \in 1..(i - 1) : objectStr[j] = "{"})
    - Cardinality({j \in 1..(i - 1) : objectStr[j] = "}"})

(* The pipes the loop meets with depth == 0. *)
splitPoints(objectStr) ==
    {i \in 1..Len(objectStr) : objectStr[i] = "|" /\ depthAt(objectStr, i) = 0}

RECURSIVE fieldsFrom(_, _, _)
fieldUpTo(objectStr, start, points, p) ==
    <<SubSeq(objectStr, start, p - 1)>> \o fieldsFrom(objectStr, p + 1, points \ {p})

(* What the loop appends to fields from character start on: the text up to *)
(* each split point, and what is left after the last one unless empty.     *)
fieldsFrom(objectStr, start, points) ==
    IF points = {}
    THEN IF start <= Len(objectStr) THEN <<SubSeq(objectStr, start, Len(objectStr))>> ELSE <<>>
    ELSE fieldUpTo(objectStr, start, points, Least(points))

(* The variant a depth-blind splitter would be. *)
splitObjectFieldsFlat(objectStr) ==
    IF objectStr = <<>> THEN <<>> ELSE Split(objectStr, <<"|">>)

splitObjectFields(objectStr) ==
    fieldsFrom(objectStr, 1, splitPoints(objectStr))

RECURSIVE parseType(_)
RECURSIVE parseObjectPairs(_, _, _, _)

TypeOk(ft) ==
    [ok |-> TRUE, ft |-> ft, err |-> <<>>]

TypeErr(e) ==
    [ok |-> FALSE, ft |-> ZeroFieldType, err |-> e]

ObjectType(fields, fieldOrder) ==
    [Type |-> "object", ElementType |-> NoType, ObjectFields |-> fields,
     ObjectOrder |-> fieldOrder, Name |-> <<>>]

(* One pair of the loop once its type is parsed: the field is stored under *)
(* its name and the name appended to the order.                            *)
addObjectField(fieldPairs, k, fields, fieldOrder, fieldName, sub) ==
    IF ~sub.ok THEN TypeErr(sub.err)
    ELSE parseObjectPairs(fieldPairs, k + 1,
                          MapPut(fields, fieldName, [sub.ft EXCEPT !.Name = fieldName]),
                          Append(fieldOrder, fieldName))

parseObjectPair(fieldPairs, k, fields, fieldOrder, pair, colonIndex) ==
    IF colonIndex = -1
    THEN TypeErr([kind |-> "invalid object field format", text |-> pair])
    ELSE addObjectField(fieldPairs, k, fields, fieldOrder,
                        TrimSpace(Slice(pair, 0, colonIndex)),
                        parseType(TrimSpace(Slice(pair, colonIndex + 1, Len(pair)))))

(* The loop over fieldPairs in parseType's object branch. *)
parseObjectPairs(fieldPairs, k, fields, fieldOrder) ==
    IF k > Len(fieldPairs) THEN TypeOk(ObjectType(fields, fieldOrder))
    ELSE parseObjectPair(fieldPairs, k, fields, fieldOrder, fieldPairs[k],
                         Index(fieldPairs[k], <<":">>))

arrayOf(elem) ==
    IF ~elem.ok THEN TypeErr(elem.err)
    ELSE TypeOk([FieldType("array") EXCEPT !.ElementType = elem.ft])

parseTrimmedType(typeStr) ==
    IF HasSuffix(typeStr, <<"[", "]">>)
    THEN arrayOf(parseType(TrimSuffix(typeStr, <<"[", "]">>)))
    ELSE IF HasPrefix(typeStr, <<"{">>) /\ HasSuffix(typeStr, <<"}">>)
    THEN parseObjectPairs(splitObjectFields(Slice(typeStr, 1, Len(typeStr) - 1)),
                          1, EmptyMap, <<>>)
    ELSE IF \E t \in ScalarNames : TypeText(t) = typeStr
    THEN TypeOk(FieldType(CHOOSE t \in ScalarNames : TypeText(t) = typeStr))
    ELSE TypeErr([kind |-> "unknown type", text |-> typeStr])

parseType(typeStr) ==
    parseTrimmedType(TrimSpace(typeStr))

RECURSIVE parseSchemaLoop(_, _, _)

addSchemaField(lines, k, schema, fieldName, parsed) ==
    IF ~parsed.ok
    THEN [ok |-> FALSE, schema |-> schema,
          err |-> [kind |-> "error parsing type", field |-> fieldName, cause |-> parsed.err]]
    ELSE parseSchemaLoop(lines, k + 1,
                         Schema(MapPut(schema.Fields, fieldName, parsed.ft),
                                Append(schema.FieldOrder, fieldName)))

parseSchemaLine(lines, k, schema, line, colonIndex) ==
    IF line = <<>> \/ HasPrefix(line, <<"#">>) THEN parseSchemaLoop(lines, k + 1, schema)
    ELSE IF colonIndex = -1 THEN parseSchemaLoop(lines, k + 1, schema)
    ELSE addSchemaField(lines, k, schema, TrimSpace(Slice(line, 0, colonIndex)),
                        parseType(TrimSpace(Slice(line, colonIndex + 1, Len(line)))))

parseSchemaLoop(lines, k, schema) ==
    IF k > Len(lines) THEN [ok |-> TRUE, schema |-> schema, err |-> <<>>]
    ELSE parseSchemaLine(lines, k, schema, TrimSpace(lines[k]),
                         Index(TrimSpace(lines[k]), <<":">>))

parseSchema(metaContent) ==
    parseSchemaLoop(Split(TrimSpace(metaContent), <<"\n">>), 1, Schema(EmptyMap, <<>>))

(***************************************************************************)
(* Rendering a schema.                                                     *)
(***************************************************************************)
(* The variant that would ignore the preserved order. *)
GetFieldOrderSorted(s) ==
    SortNames(DOMAIN s.Fields)

GetFieldOrder(s) ==
    IF Len(s.FieldOrder) > 0 THEN s.FieldOrder ELSE SortNames(DOMAIN s.Fields)

getObjectFieldOrder(fieldType) ==
    IF fieldType # NoType /\ Len(fieldType.ObjectOrder) > 0 THEN fieldType.ObjectOrder
    ELSE IF fieldType # NoType THEN SortNames(DOMAIN fieldType.ObjectFields)
    ELSE <<>>

RECURSIVE fieldTypeToString(_)
RECURSIVE renderObjectFields(_, _, _)

renderObjectFields(ft, fieldNames, k) ==
    IF k > Len(fieldNames) THEN <<>>
    ELSE <<fieldNames[k] \o <<":">> \o fieldTypeToString(FieldAt(ft.ObjectFields, fieldNames[k]))>>
         \o renderObjectFields(ft, fieldNames, k + 1)

fieldTypeToString(ft) ==
    IF ft.Type = "array"
    THEN IF ft.ElementType # NoType
         THEN fieldTypeToString(ft.ElementType) \o <<"[", "]">>
         ELSE <<"[", "]">>
    ELSE IF ft.Type = "object"
    THEN <<"{">>
         \o Join(renderObjectFields(ft, IF Len(ft.ObjectOrder) = 0
                                        THEN SortNames(DOMAIN ft.ObjectFields)
                                        ELSE ft.ObjectOrder, 1), <<"|">>)
         \o <<"}">>
    ELSE TypeText(ft.Type)

Indent4 ==
    <<" ", " ", " ", " ">>

RECURSIVE ToStringLoop(_, _, _)
ToStringLoop(s, fieldNames, k) ==
    IF k > Len(fieldNames) THEN <<>>
    ELSE Indent4 \o fieldNames[k] \o <<":", " ">>
         \o fieldTypeToString(FieldAt(s.Fields, fieldNames[k])) \o <<"\n">>
         \o ToStringLoop(s, fieldNames, k + 1)

ToString(s) ==
    ToStringLoop(s, GetFieldOrder(s), 1)

(***************************************************************************)
(* Values: Go's interface{} trees.  A JSON number is a float64; the parser *)
(* returns Go ints for the integer kinds.                                  *)
(***************************************************************************)
VStr(s) ==
    [k |-> "string", s |-> s]

VFloat(m, d) ==
    [k |-> "float64", m |-> m, d |-> d]

VFloat32(m, d) ==
    [k |-> "float32", m |-> m, d |-> d]

VInt(n) ==
    [k |-> "int", n |-> n]

VBool(b) ==
    [k |-> "bool", b |-> b]

VArr(a) ==
    [k |-> "array", a |-> a]

VObj(o) ==
    [k |-> "object", o |-> o]

VNil ==
    [k |-> "nil"]

(* The keys of a map in the order one range loop visits them: Go leaves    *)
(* the order unspecified, so it is an input, ord, a ranking of the names.  *)
RECURSIVE KeysInOrder(_, _)
KeysInOrder(keys, ord) ==
    IF ord = <<>> THEN <<>>
    ELSE (IF Head(ord) \in keys THEN <<Head(ord)>> ELSE <<>>) \o KeysInOrder(keys, Tail(ord))

RECURSIVE Sprint(_)
RECURSIVE SprintAll(_)
RECURSIVE SprintEntries(_, _)

SprintAll(items) ==
    IF items = <<>> THEN <<>> ELSE <<Sprint(Head(items))>> \o SprintAll(Tail(items))

SprintEntries(o, keys) ==
    IF keys = <<>> THEN <<>>
    ELSE <<Head(keys) \o <<":">> \o Sprint(o[Head(keys)])>> \o SprintEntries(o, Tail(keys))

(* fmt.Sprintf("%v", value). *)
Sprint(v) ==
    CASE v.k = "string"  -> v.s
      [] v.k \in {"float64", "float32"} -> FormatFloat(v.m, v.d)
      [] v.k = "int"     -> FormatInt(v.n)
      [] v.k = "bool"    -> IF v.b THEN <<"t", "r", "u", "e">> ELSE <<"f", "a", "l", "s", "e">>
      [] v.k = "array"   -> <<"[">> \o Join(SprintAll(v.a), <<" ">>) \o <<"]">>
      [] v.k = "object"  -> <<"m", "a", "p", "[">>
                            \o Join(SprintEntries(v.o, SortNames(DOMAIN v.o)), <<" ">>)
                            \o <<"]">>
      [] OTHER           -> <<"<", "n", "i", "l", ">">>

(***************************************************************************)
(* The type inferencer.                                                    *)
(***************************************************************************)
RECURSIVE inferFieldType(_, _)
RECURSIVE inferObjectFields(_, _, _, _, _)

inferObjectFields(o, keys, ord, fields, objectOrder) ==
    IF keys = <<>>
    THEN [Type |-> "object", ElementType |-> NoType, ObjectFields |-> fields,
          ObjectOrder |-> objectOrder, Name |-> <<>>]
    ELSE inferObjectFields(o, Tail(keys), ord,
                           MapPut(fields, Head(keys), inferFieldType(o[Head(keys)], ord)),
                           Append(objectOrder, Head(keys)))

inferFieldType(value, ord) ==
    CASE value.k = "nil"     -> FieldType("string")
      [] value.k = "string"  -> FieldType("string")
      [] value.k = "float64" -> IF value.d = 0 THEN FieldType("int") ELSE FieldType("float64")
      [] value.k = "int"     -> FieldType("int")
      [] value.k = "float32" -> FieldType("float32")
      [] value.k = "bool"    -> FieldType("bool")
      [] value.k = "array"   ->
            [FieldType("array") EXCEPT
                !.ElementType = IF Len(value.a) > 0 THEN inferFieldType(value.a[1], ord)
                                ELSE NoType]
      [] value.k = "object"  ->
            inferObjectFields(value.o, KeysInOrder(DOMAIN value.o, ord), ord, EmptyMap, <<>>)
      [] OTHER               -> FieldType("string")

RECURSIVE inferSchemaLoop(_, _, _, _)
inferSchemaLoop(o, keys, ord, schema) ==
    IF keys = <<>> THEN schema
    ELSE inferSchemaLoop(o, Tail(keys), ord,
                         Schema(MapPut(schema.Fields, Head(keys), inferFieldType(o[Head(keys)], ord)),
                                Append(schema.FieldOrder, Head(keys))))

InferSchemaFromJSON(data, ord) ==
    IF data.k = "object"
    THEN inferSchemaLoop(data.o, KeysInOrder(DOMAIN data.o, ord), ord, Schema(EmptyMap, <<>>))
    ELSE Schema(EmptyMap, <<>>)

(***************************************************************************)
(* The value writer.                                                       *)
(***************************************************************************)
Ok(s) ==
    [ok |-> TRUE, s |-> s, err |-> <<>>]

Fail(e) ==
    [ok |-> FALSE, s |-> <<>>, err |-> e]

(* The values of the fields the object has, in the type's field order. *)
RECURSIVE objectValues(_, _)
objectValues(obj, fieldOrder) ==
    IF fieldOrder = <<>> THEN <<>>
    ELSE (IF Head(fieldOrder) \in DOMAIN obj THEN <<Sprint(obj[Head(fieldOrder)])>> ELSE <<>>)
         \o objectValues(obj, Tail(fieldOrder))

writeArrayItemAt(item, itemType, indentStr) ==
    IF itemType = NoType THEN Ok(indentStr \o Sprint(item))
    ELSE IF itemType.Type = "object"
    THEN IF item.k # "object"
         THEN Fail([kind |-> "expected object in array"])
         ELSE Ok(indentStr \o Join(objectValues(item.o, getObjectFieldOrder(itemType)), <<"|">>))
    ELSE Ok(indentStr \o Sprint(item))

writeArrayItem(item, itemType, indent) ==
    writeArrayItemAt(item, itemType, Repeat(Indent4, indent))

RECURSIVE writeArrayItems(_, _, _, _)
appendArrayItem(arr, itemType, indent, buffer, item) ==
    IF ~item.ok THEN item
    ELSE writeArrayItems(Tail(arr), itemType, indent, buffer \o item.s \o <<"\n">>)

(* The loop over the items of a multi-line array. *)
writeArrayItems(arr, itemType, indent, buffer) ==
    IF arr = <<>> THEN Ok(buffer)
    ELSE appendArrayItem(arr, itemType, indent, buffer,
                         writeArrayItem(Head(arr), itemType, indent))

(* The variant that would declare one element fewer than it writes. *)
arrayHeaderShort(indentStr, name, arr) ==
    indentStr \o name \o <<"[">> \o FormatInt(IF Len(arr) > 0 THEN Len(arr) - 1 ELSE 0)
    \o <<"]", ":">>

(* fmt.Sprintf("%s%s[%d]:", indentStr, name, len(arr)). *)
arrayHeader(indentStr, name, arr) ==
    indentStr \o name \o <<"[">> \o FormatInt(Len(arr)) \o <<"]", ":">>

trimItems(items) ==
    IF ~items.ok THEN items ELSE Ok(TrimRightNewlines(items.s))

writeArrayField(arr, fieldType, indent, header) ==
    IF Len(arr) = 0 THEN Ok(header)
    ELSE IF fieldType.ElementType # NoType /\ isSimpleType(fieldType.ElementType.Type)
    THEN Ok(TrimRightNewlines(header \o <<" ">> \o Join(SprintAll(arr), <<"|">>)))
    ELSE trimItems(writeArrayItems(arr, fieldType.ElementType, indent + 1,
                                   header \o <<"\n">>))

writeFieldAt(name, value, fieldType, indent, indentStr) ==
    IF isSimpleType(fieldType.Type)
    THEN Ok(indentStr \o name \o <<":", "\n">> \o indentStr \o Indent4 \o Sprint(value))
    ELSE IF fieldType.Type = "array"
    THEN IF value.k # "array"
         THEN Fail([kind |-> "expected array", field |-> name])
         ELSE writeArrayField(value.a, fieldType, indent, arrayHeader(indentStr, name, value.a))
    ELSE IF fieldType.Type = "object"
    THEN IF value.k # "object"
         THEN Fail([kind |-> "expected object", field |-> name])
         ELSE Ok(indentStr \o name \o <<":", "\n">> \o indentStr \o Indent4
                 \o Join(objectValues(value.o, getObjectFieldOrder(fieldType)), <<"|">>))
    ELSE Fail([kind |-> "unknown field type", type |-> fieldType.Type])

writeField(name, value, fieldType, indent) ==
    writeFieldAt(name, value, fieldType, indent, Repeat(Indent4, indent))

appendField(fieldName, buffer, f) ==
    IF ~f.ok
    THEN Fail([kind |-> "error writing field", field |-> fieldName, cause |-> f.err])
    ELSE Ok(buffer \o f.s \o (IF HasSuffix(f.s, <<"\n">>) THEN <<>> ELSE <<"\n">>))

(* One iteration of writeData's loop, for fieldName with the Fields map as *)
(* it is read at that moment.                                              *)
writeDataStep(fields, data, fieldName, buffer) ==
    IF fieldName \notin DOMAIN fields THEN Ok(buffer)
    ELSE IF fieldName \notin DOMAIN data THEN Ok(buffer)
    ELSE appendField(fieldName, buffer,
                     writeField(fieldName, data[fieldName], fields[fieldName], 0))

RECURSIVE writeDataLoop(_, _, _, _)
writeDataNext(fields, data, fieldOrder, step) ==
    IF ~step.ok THEN step ELSE writeDataLoop(fields, data, Tail(fieldOrder), step.s)

writeDataLoop(fields, data, fieldOrder, buffer) ==
    IF fieldOrder = <<>> THEN Ok(buffer)
    ELSE writeDataNext(fields, data, fieldOrder,
                       writeDataStep(fields, data, Head(fieldOrder), buffer))

writeData(schema, data) ==
    writeDataLoop(schema.Fields, data, GetFieldOrder(schema), <<>>)

MetaMarker ==
    <<"m", "e", "t", "a", "\n">>

DataMarker ==
    <<"\n", "d", "a", "t", "a", "\n">>

joinSections(schemaStr, dataStr) ==
    IF ~dataStr.ok THEN dataStr
    ELSE Ok(MetaMarker \o schemaStr \o DataMarker \o dataStr.s)

(* Writer.WriteMetaDat with w.schema = schema; data is the map's content. *)
WriteMetaDat(schema, data) ==
    IF DOMAIN schema.Fields = {} THEN Fail([kind |-> "no schema defined"])
    ELSE joinSections(ToString(schema), writeData(schema, data))

(***************************************************************************)
(* The value parser.  lines is the data section split into lines; cursor   *)
(* positions are the code's 0-based indexes, LineAt(lines, i) is lines[i]. *)
(* A decoder returns [ok, val, idx, err]: the value, the new cursor and    *)
(* the error, as the code's three results.                                 *)
(***************************************************************************)
LineAt(lines, i) ==
    lines[i + 1]

Parsed(v, i) ==
    [ok |-> TRUE, val |-> v, idx |-> i, err |-> <<>>]

ParseErr(i, e) ==
    [ok |-> FALSE, val |-> VNil, idx |-> i, err |-> e]

IsIndented(line) ==
    HasPrefix(line, Indent4) \/ HasPrefix(line, <<"\t">>)

intOrErr(r, okIdx, errIdx, e) ==
    IF r.ok THEN Parsed(VInt(r.n), okIdx) ELSE ParseErr(errIdx, e)

floatOrErr(r, kind, okIdx, errIdx, e) ==
    IF r.ok THEN Parsed([k |-> kind, m |-> r.m, d |-> r.d], okIdx) ELSE ParseErr(errIdx, e)

boolOrErr(r, okIdx, errIdx, e) ==
    IF r.ok THEN Parsed(VBool(r.b), okIdx) ELSE ParseErr(errIdx, e)

(* The conversion of one positional value of an object line. *)
convertObjectValue(fieldDef, fieldName, valueStr) ==
    IF fieldDef.Type \in {"int", "int32", "int64"}
    THEN intOrErr(ParseInt(valueStr), 0, 0,
                  [kind |-> "invalid integer for field", field |-> fieldName, text |-> valueStr])
    ELSE IF fieldDef.Type \in {"float32", "float64"}
    THEN floatOrErr(ParseFloat(valueStr), fieldDef.Type, 0, 0,
                    [kind |-> "invalid float for field", type |-> fieldDef.Type,
                     field |-> fieldName, text |-> valueStr])
    ELSE IF fieldDef.Type = "bool"
    THEN boolOrErr(ParseBool(valueStr), 0, 0,
                   [kind |-> "invalid boolean for field", field |-> fieldName, text |-> valueStr])
    ELSE Parsed(VStr(valueStr), 0)

RECURSIVE parseObjectFromLineLoop(_, _, _, _, _)
putObjectValue(values, fieldType, fieldOrder, i, result, fieldName, conv) ==
    IF ~conv.ok THEN conv
    ELSE parseObjectFromLineLoop(values, fieldType, fieldOrder, i + 1,
                                 MapPut(result, fieldName, conv.val))

parseObjectFromLineLoop(values, fieldType, fieldOrder, i, result) ==
    IF i >= Len(fieldOrder) \/ i >= Len(values)
    THEN Parsed(VObj(result), 0)
    ELSE putObjectValue(values, fieldType, fieldOrder, i, result, LineAt(fieldOrder, i),
                        convertObjectValue(FieldAt(fieldType.ObjectFields, LineAt(fieldOrder, i)),
                                           LineAt(fieldOrder, i), TrimSpace(LineAt(values, i))))

parseObjectFromLine(line, fieldType) ==
    parseObjectFromLineLoop(Split(line, <<"|">>), fieldType, getObjectFieldOrder(fieldType),
                            0, EmptyMap)

firstWithOrder(fields, withOrder) ==
    IF withOrder # <<>> THEN fields[withOrder[1]].ObjectOrder
    ELSE SortNames(DOMAIN fields)

(* getFieldOrder: the ObjectOrder of the first object-typed field the map  *)
(* iteration meets that has one, else the names in ascending order.        *)
getFieldOrder(fields, ord) ==
    firstWithOrder(fields, SelectSeq(KeysInOrder(DOMAIN fields, ord),
                                     LAMBDA n : fields[n].Type = "object"
                                                /\ Len(fields[n].ObjectOrder) > 0))

(* The element of a multi-line array held by one trimmed line. *)
arrayElement(fieldType, trimmedLine) ==
    IF fieldType.ElementType # NoType /\ fieldType.ElementType.Type = "object"
    THEN parseObjectFromLine(trimmedLine, fieldType.ElementType)
    ELSE Parsed(VStr(trimmedLine), 0)

RECURSIVE trimAll(_)
trimAll(values) ==
    IF values = <<>> THEN <<>> ELSE <<VStr(TrimSpace(Head(values)))>> \o trimAll(Tail(values))

DefaultArraySize ==
    50000

RECURSIVE parseArrayLoop(_, _, _, _)
appendElement(fieldType, lines, i, result, elem) ==
    IF ~elem.ok THEN ParseErr(i, elem.err)
    ELSE parseArrayLoop(fieldType, lines, i + 1, Append(result, elem.val))

parseArrayLine(fieldType, lines, i, result, line, trimmedLine) ==
    IF ~IsIndented(line) THEN Parsed(VArr(result), i)
    ELSE IF trimmedLine = <<>> THEN parseArrayLoop(fieldType, lines, i + 1, result)
    ELSE IF Len(result) >= DefaultArraySize THEN Parsed(VArr(result), i)
    ELSE appendElement(fieldType, lines, i, result, arrayElement(fieldType, trimmedLine))

parseArrayLoop(fieldType, lines, i, result) ==
    IF i >= Len(lines) THEN Parsed(VArr(result), i)
    ELSE parseArrayLine(fieldType, lines, i, result, LineAt(lines, i),
                        TrimSpace(LineAt(lines, i)))

parseArray(fieldType, valueStr, lines, currentIndex) ==
    IF valueStr # <<>> /\ Contains(valueStr, <<"|">>)
    THEN Parsed(VArr(trimAll(Split(valueStr, <<"|">>))), currentIndex + 1)
    ELSE parseArrayLoop(fieldType, lines, currentIndex + 1, <<>>)

RECURSIVE parseValue(_, _, _, _, _)
RECURSIVE parseObject(_, _, _, _, _)
RECURSIVE parseObjectFields(_, _, _, _, _, _)

(* The look-ahead the numeric and boolean kinds share: the next line is    *)
(* taken when the value is empty and that line, trimmed, is not empty and  *)
(* has no colon.                                                           *)
takesNextLine(valueStr, lines, currentIndex) ==
    /\ valueStr = <<>>
    /\ currentIndex + 1 < Len(lines)
    /\ TrimSpace(LineAt(lines, currentIndex + 1)) # <<>>
    /\ ~Contains(TrimSpace(LineAt(lines, currentIndex + 1)), <<":">>)

(* The variant of the string case that would leave the cursor on the line. *)
parseStringStays(valueStr, lines, currentIndex) ==
    Parsed(VStr(valueStr), currentIndex)

(* The string case: the next line is taken only when it is indented. *)
parseString(valueStr, lines, currentIndex) ==
    IF valueStr = <<>> /\ currentIndex + 1 < Len(lines)
       /\ IsIndented(LineAt(lines, currentIndex + 1))
    THEN Parsed(VStr(TrimSpace(LineAt(lines, currentIndex + 1))), currentIndex + 2)
    ELSE Parsed(VStr(valueStr), currentIndex + 1)

(* The numeric and boolean cases after the look-ahead. *)
parseScalar(fieldType, valueStr, currentIndex) ==
    IF fieldType.Type \in {"int", "int32", "int64"}
    THEN intOrErr(ParseInt(TrimSpace(valueStr)), currentIndex + 1, currentIndex,
                  [kind |-> "invalid integer value", text |-> valueStr])
    ELSE IF fieldType.Type \in {"float32", "float64"}
    THEN floatOrErr(ParseFloat(TrimSpace(valueStr)), fieldType.Type, currentIndex + 1,
                    currentIndex,
                    [kind |-> "invalid float value", type |-> fieldType.Type, text |-> valueStr])
    ELSE boolOrErr(ParseBool(TrimSpace(valueStr)), currentIndex + 1, currentIndex,
                   [kind |-> "invalid boolean value", text |-> valueStr])

parseScalarAhead(fieldType, valueStr, lines, currentIndex, take) ==
    parseScalar(fieldType,
                IF take THEN TrimSpace(LineAt(lines, currentIndex + 1)) ELSE valueStr,
                IF take THEN currentIndex + 1 ELSE currentIndex)

parseValue(fieldType, valueStr, lines, currentIndex, ord) ==
    IF fieldType.Type = "string"
    THEN parseString(valueStr, lines, currentIndex)
    ELSE IF fieldType.Type \in {"int", "int32", "int64", "float32", "float64", "bool"}
    THEN parseScalarAhead(fieldType, valueStr, lines, currentIndex,
                          takesNextLine(valueStr, lines, currentIndex))
    ELSE IF fieldType.Type = "array"
    THEN parseArray(fieldType, valueStr, lines, currentIndex)
    ELSE IF fieldType.Type = "object"
    THEN parseObject(fieldType, valueStr, lines, currentIndex, ord)
    ELSE ParseErr(currentIndex, [kind |-> "unknown type", type |-> fieldType.Type])

putSubField(fieldType, fieldOrder, lines, i, result, ord, sub) ==
    IF ~sub.ok THEN ParseErr(i, sub.err)
    ELSE parseObjectFields(fieldType, Tail(fieldOrder), lines, sub.idx,
                           MapPut(result, Head(fieldOrder), sub.val), ord)

parseObjectFieldLine(fieldType, fieldOrder, lines, i, result, ord, line, prefix) ==
    IF line = <<>>
    THEN parseObjectFields(fieldType, Tail(fieldOrder), lines, i + 1, result, ord)
    ELSE IF HasPrefix(line, prefix)
    THEN putSubField(fieldType, fieldOrder, lines, i, result, ord,
                     parseValue(FieldAt(fieldType.ObjectFields, Head(fieldOrder)),
                                TrimSpace(TrimPrefix(line, prefix)), lines, i, ord))
    ELSE parseObjectFields(fieldType, Tail(fieldOrder), lines, i, result, ord)

(* The field-by-field loop of parseObject. *)
parseObjectFields(fieldType, fieldOrder, lines, i, result, ord) ==
    IF fieldOrder = <<>> \/ i >= Len(lines) THEN Parsed(VObj(result), i)
    ELSE parseObjectFieldLine(fieldType, fieldOrder, lines, i, result, ord,
                              TrimSpace(LineAt(lines, i)), Head(fieldOrder) \o <<":">>)

atIndex(r, i) ==
    [r EXCEPT !.idx = i]

(* Where parseObject finds the pipe-separated values: in the value of the  *)
(* field's own line, in the next line, or nowhere.                         *)
objectLineAt(valueStr, lines, currentIndex) ==
    IF valueStr # <<>> /\ Contains(valueStr, <<"|">>) THEN "inline"
    ELSE IF currentIndex + 1 < Len(lines)
            /\ TrimSpace(LineAt(lines, currentIndex + 1)) # <<>>
            /\ Contains(TrimSpace(LineAt(lines, currentIndex + 1)), <<"|">>)
    THEN "next"
    ELSE "none"

parseObjectAt(fieldType, valueStr, lines, currentIndex, ord, where) ==
    IF where = "none"
    THEN parseObjectFields(fieldType, getFieldOrder(fieldType.ObjectFields, ord),
                           lines, currentIndex + 1, EmptyMap, ord)
    ELSE atIndex(parseObjectFromLine(IF where = "inline" THEN valueStr
                                     ELSE TrimSpace(LineAt(lines, currentIndex + 1)),
                                     fieldType),
                 IF where = "inline" THEN currentIndex + 1 ELSE currentIndex + 2)

parseObject(fieldType, valueStr, lines, currentIndex, ord) ==
    parseObjectAt(fieldType, valueStr, lines, currentIndex, ord,
                  objectLineAt(valueStr, lines, currentIndex))

SizeMismatch(declared, found) ==
    [kind |-> "array size mismatch", declared |-> declared, found |-> found]

Collected(result, i) ==
    [res |-> result, i |-> i, ok |-> TRUE, err |-> <<>>]

RECURSIVE parseDeclaredLoop(_, _, _, _, _)
appendDeclared(fieldType, lines, i, declaredSize, result, elem) ==
    IF ~elem.ok THEN [res |-> result, i |-> i, ok |-> FALSE, err |-> elem.err]
    ELSE parseDeclaredLoop(fieldType, lines, i + 1, declaredSize, Append(result, elem.val))

parseDeclaredLine(fieldType, lines, i, declaredSize, result, line, trimmedLine) ==
    IF ~IsIndented(line) THEN Collected(result, i)
    ELSE IF trimmedLine = <<>>
    THEN parseDeclaredLoop(fieldType, lines, i + 1, declaredSize, result)
    ELSE appendDeclared(fieldType, lines, i, declaredSize, result,
                        arrayElement(fieldType, trimmedLine))

(* The multi-line loop of parseArrayWithDeclaredSize. *)
parseDeclaredLoop(fieldType, lines, i, declaredSize, result) ==
    IF ~(i < Len(lines) /\ (declaredSize <= 0 \/ Len(result) < declaredSize))
    THEN Collected(result, i)
    ELSE parseDeclaredLine(fieldType, lines, i, declaredSize, result, LineAt(lines, i),
                           TrimSpace(LineAt(lines, i)))

(* The end of parseArrayWithDeclaredSize: the count against the size. *)
checkedArray(values, declaredSize, errIdx, okIdx) ==
    IF declaredSize > 0 /\ Len(values) # declaredSize
    THEN ParseErr(errIdx, SizeMismatch(declaredSize, Len(values)))
    ELSE Parsed(VArr(values), okIdx)

(* The variant that would not compare the count with the declared size. *)
uncheckedArray(values, declaredSize, errIdx, okIdx) ==
    Parsed(VArr(values), okIdx)

checkedLoop(loop, declaredSize) ==
    IF ~loop.ok THEN ParseErr(loop.i, loop.err)
    ELSE checkedArray(loop.res, declaredSize, loop.i, loop.i)

parseArrayWithDeclaredSize(fieldType, valueStr, lines, currentIndex, declaredSize) ==
    IF valueStr # <<>> /\ Contains(valueStr, <<"|">>)
    THEN checkedArray(trimAll(Split(valueStr, <<"|">>)), declaredSize,
                      currentIndex, currentIndex + 1)
    ELSE checkedLoop(parseDeclaredLoop(fieldType, lines, currentIndex + 1, declaredSize, <<>>),
                     declaredSize)

parseValueWithArraySize(fieldType, valueStr, lines, currentIndex, arraySize, ord) ==
    IF fieldType.Type = "array"
    THEN parseArrayWithDeclaredSize(fieldType, valueStr, lines, currentIndex, arraySize)
    ELSE parseValue(fieldType, valueStr, lines, currentIndex, ord)

hasSize(bracketIndex, closeBracketIndex) ==
    bracketIndex # -1 /\ closeBracketIndex > bracketIndex

nameBefore(fieldNameWithSize, bracketIndex, closeBracketIndex) ==
    IF hasSize(bracketIndex, closeBracketIndex)
    THEN Slice(fieldNameWithSize, 0, bracketIndex)
    ELSE fieldNameWithSize

(* The name of a header such as "arrayName[3]". *)
headerName(fieldNameWithSize) ==
    nameBefore(fieldNameWithSize, Index(fieldNameWithSize, <<"[">>),
               Index(fieldNameWithSize, <<"]">>))

sizeValue(size) ==
    IF size.ok THEN size.n ELSE 0

sizeBetween(fieldNameWithSize, bracketIndex, closeBracketIndex) ==
    IF hasSize(bracketIndex, closeBracketIndex)
    THEN sizeValue(ParseInt(Slice(fieldNameWithSize, bracketIndex + 1, closeBracketIndex)))
    ELSE 0

(* Its declared size: 0 when there is none or it is not a number. *)
headerSize(fieldNameWithSize) ==
    sizeBetween(fieldNameWithSize, Index(fieldNameWithSize, <<"[">>),
                Index(fieldNameWithSize, <<"]">>))

putField(result, fieldName, i, parsed) ==
    IF ~parsed.ok
    THEN ParseErr(i, [kind |-> "error parsing field", field |-> fieldName,
                      cause |-> parsed.err])
    ELSE Parsed(MapPut(result, fieldName, parsed.val), parsed.idx)

parseNamedField(fields, lines, i, result, ord, fieldName, arraySize, fieldValue) ==
    IF fieldName \notin DOMAIN fields
    THEN ParseErr(i, [kind |-> "unknown field", field |-> fieldName])
    ELSE putField(result, fieldName, i,
                  parseValueWithArraySize(fields[fieldName], fieldValue, lines, i,
                                          arraySize, ord))

parseHeader(fields, lines, i, result, ord, fieldNameWithSize, fieldValue) ==
    parseNamedField(fields, lines, i, result, ord, headerName(fieldNameWithSize),
                    headerSize(fieldNameWithSize), fieldValue)

parseDataLine(fields, lines, i, result, ord, line, colonIndex) ==
    IF colonIndex = -1
    THEN ParseErr(i, [kind |-> "invalid data format", line |-> i + 1, text |-> line])
    ELSE parseHeader(fields, lines, i, result, ord, TrimSpace(Slice(line, 0, colonIndex)),
                     TrimSpace(Slice(line, colonIndex + 1, Len(line))))

(* One iteration of ParseData's loop at cursor i, for a non-blank line,    *)
(* with the Fields map as it is read at that moment.                       *)
parseDataStep(fields, lines, i, result, ord) ==
    parseDataLine(fields, lines, i, result, ord, TrimSpace(LineAt(lines, i)),
                  Index(TrimSpace(LineAt(lines, i)), <<":">>))

RECURSIVE parseDataLoop(_, _, _, _, _)
parseDataNext(fields, lines, ord, step) ==
    IF ~step.ok THEN step
    ELSE parseDataLoop(fields, lines, step.idx, step.val, ord)

parseDataLoop(fields, lines, i, result, ord) ==
    IF i >= Len(lines) THEN Parsed(VObj(result), i)
    ELSE IF TrimSpace(LineAt(lines, i)) = <<>>
    THEN parseDataLoop(fields, lines, i + 1, result, ord)
    ELSE parseDataNext(fields, lines, ord, parseDataStep(fields, lines, i, result, ord))

DataLines(dataContent) ==
    Split(TrimSpace(dataContent), <<"\n">>)

(* Parser.ParseData with p.schema = schema. *)
ParseData(schema, dataContent, ord) ==
    IF DOMAIN schema.Fields = {} THEN ParseErr(0, [kind |-> "no schema loaded"])
    ELSE parseDataLoop(schema.Fields, DataLines(dataContent), 0, EmptyMap, ord)

parseWithSchema(schema0, parsedSchema, dataContent, ord) ==
    IF ~parsedSchema.ok
    THEN [out |-> ParseErr(0, [kind |-> "failed to parse schema", cause |-> parsedSchema.err]),
          schema |-> schema0]
    ELSE [out |-> ParseData(parsedSchema.schema, dataContent, ord),
          schema |-> parsedSchema.schema]

parseSections(schema0, sections, ord) ==
    IF Len(sections) # 2
    THEN [out |-> ParseErr(0, [kind |-> "invalid MetaDat format"]), schema |-> schema0]
    ELSE parseWithSchema(schema0, parseSchema(TrimPrefix(sections[1], MetaMarker)),
                         sections[2], ord)

(* Parser.ParseMetaDat on a Parser whose schema is schema0: the result and *)
(* the schema the Parser holds afterwards.                                 *)
ParseMetaDat(schema0, content, ord) ==
    parseSections(schema0, Split(content, DataMarker), ord)

(* NewParser() and NewWriter(): an empty Fields map, no field order. *)
NewSchema ==
    Schema(EmptyMap, <<>>)

(***************************************************************************)
(* The validator.  A check returns [ok, err].                              *)
(***************************************************************************)
Valid ==
    [ok |-> TRUE, err |-> <<>>]

Invalid(e) ==
    [ok |-> FALSE, err |-> e]

RECURSIVE validateValue(_, _, _)
RECURSIVE validateElements(_, _, _, _)
RECURSIVE validateObjectFields(_, _, _, _)

elementChecked(arr, elementType, i, ord, r) ==
    IF ~r.ok THEN Invalid([kind |-> "array element", index |-> i, cause |-> r.err])
    ELSE validateElements(arr, elementType, i + 1, ord)

(* The loop over the elements of an array, i the code's 0-based index. *)
validateElements(arr, elementType, i, ord) ==
    IF i >= Len(arr) THEN Valid
    ELSE elementChecked(arr, elementType, i, ord, validateValue(arr[i + 1], elementType, ord))

objectFieldChecked(obj, objectFields, names, ord, r) ==
    IF ~r.ok THEN Invalid([kind |-> "object field", field |-> Head(names), cause |-> r.err])
    ELSE validateObjectFields(obj, objectFields, Tail(names), ord)

(* The loop over ObjectFields, names the order the map iteration takes. *)
validateObjectFields(obj, objectFields, names, ord) ==
    IF names = <<>> THEN Valid
    ELSE IF Head(names) \notin DOMAIN obj
    THEN validateObjectFields(obj, objectFields, Tail(names), ord)
    ELSE objectFieldChecked(obj, objectFields, names, ord,
                            validateValue(obj[Head(names)], objectFields[Head(names)], ord))

expectKinds(value, kinds, what) ==
    IF value.k \in kinds THEN Valid ELSE Invalid([kind |-> what, got |-> value.k])

validateValue(value, fieldType, ord) ==
    IF fieldType.Type = "string" THEN expectKinds(value, {"string"}, "expected string")
    ELSE IF fieldType.Type \in {"int", "int32", "int64"}
    THEN expectKinds(value, {"int", "int32", "int64", "float64"}, "expected integer")
    ELSE IF fieldType.Type \in {"float32", "float64"}
    THEN expectKinds(value, {"float32", "float64", "int"}, "expected float")
    ELSE IF fieldType.Type = "bool" THEN expectKinds(value, {"bool"}, "expected bool")
    ELSE IF fieldType.Type = "array"
    THEN IF value.k # "array" THEN Invalid([kind |-> "expected array", got |-> value.k])
         ELSE IF fieldType.ElementType = NoType THEN Valid
         ELSE validateElements(value.a, fieldType.ElementType, 0, ord)
    ELSE IF fieldType.Type = "object"
    THEN IF value.k # "object" THEN Invalid([kind |-> "expected object", got |-> value.k])
         ELSE validateObjectFields(value.o, fieldType.ObjectFields,
                                   KeysInOrder(DOMAIN fieldType.ObjectFields, ord), ord)
    ELSE Invalid([kind |-> "unknown type", type |-> fieldType.Type])

RECURSIVE validateDeclared(_, _, _, _)
declaredChecked(fields, data, names, ord, r) ==
    IF ~r.ok THEN Invalid([kind |-> "validation error", field |-> Head(names), cause |-> r.err])
    ELSE validateDeclared(fields, data, Tail(names), ord)

(* ValidateData's first loop, over the schema's Fields. *)
validateDeclared(fields, data, names, ord) ==
    IF names = <<>> THEN Valid
    ELSE IF Head(names) \notin DOMAIN data THEN validateDeclared(fields, data, Tail(names), ord)
    ELSE declaredChecked(fields, data, names, ord,
                         validateValue(data[Head(names)], fields[Head(names)], ord))

(* The variant that would let undeclared fields pass. *)
firstUnknownIgnored(unknown) ==
    Valid

(* ValidateData's second loop: the first undeclared name it meets. *)
firstUnknown(unknown) ==
    IF unknown # <<>> THEN Invalid([kind |-> "unknown field", field |-> unknown[1]])
    ELSE Valid

checkUnknown(s, data, ordData, r) ==
    IF ~r.ok THEN r
    ELSE firstUnknown(SelectSeq(KeysInOrder(DOMAIN data, ordData),
                                LAMBDA n : n \notin DOMAIN s.Fields))

(* Schema.ValidateData; ord is the iteration order of the schema's maps,   *)
(* ordData that of the data map.                                           *)
ValidateData(s, data, ord, ordData) ==
    checkUnknown(s, data, ordData,
                 validateDeclared(s.Fields, data, KeysInOrder(DOMAIN s.Fields, ord), ord))

(***************************************************************************)
(* State.                                                                  *)
(***************************************************************************)
VARIABLES
    parser,     \* Parser.schema of the shared Parser
    writer,     \* Writer.schema of the shared Writer
    call,       \* the last completed call on them: its operation, inputs and result
    src,        \* the value tree handed to ConvertJSONToMetaDat
    doc,        \* the MetaDat text it returned
    back,       \* what parsing that text on a new Parser returned
    pc,         \* per thread: the position of its call
    loc         \* per thread: the locals of its call

vars ==
    <<parser, writer, call, src, doc, back, pc, loc>>

(***************************************************************************)
(* Bounds and input sets.                                                  *)
(***************************************************************************)
MaxElems ==
    2

NameA ==
    <<"a">>

NameB ==
    <<"b">>

Names ==
    {NameA, NameB}

(* The orders in which one range loop may visit the names. *)
Orders ==
    {<<NameA, NameB>>, <<NameB, NameA>>}

SeqsUpTo(S, n) ==
    UNION {[1..k -> S] : k \in 0..n}

Million ==
    Pow10(6)

(* JSON scalars: strings, integral and non-integral numbers, booleans. *)
ScalarVals ==
    {VStr(<<"x">>), VStr(<<"y">>), VFloat(7, 0), VFloat(5, 1), VFloat(Million, 0), VBool(TRUE)}

(* Element pools of the homogeneous scalar arrays. *)
ElemPools ==
    {{VStr(<<"x">>), VStr(<<"y">>)}, {VFloat(7, 0), VFloat(30, 0)}, {VBool(TRUE), VBool(FALSE)}}

ScalarArrays ==
    {VArr(a) : a \in UNION {SeqsUpTo(P, MaxElems) : P \in ElemPools}}

ObjScalars ==
    {VStr(<<"x">>), VFloat(7, 0), VFloat(5, 1), VBool(TRUE)}

(* Objects with one or two scalar fields. *)
FlatObjects ==
    {VObj(f) : f \in UNION {[K -> ObjScalars] : K \in (SUBSET Names) \ {{}}}}

Obj2(va, vb) ==
    VObj([n \in Names |-> IF n = NameA THEN va ELSE vb])

Obj1(n, v) ==
    VObj([m \in {n} |-> v])

(* Element pools of the arrays of objects: same keys, same kinds. *)
ObjPools ==
    {{Obj2(VStr(<<"x">>), VFloat(7, 0)), Obj2(VStr(<<"y">>), VFloat(30, 0))},
     {Obj1(NameA, VStr(<<"x">>)), Obj1(NameA, VStr(<<"y">>))}}

ObjectArrays ==
    {VArr(a) : a \in UNION {SeqsUpTo(P, MaxElems) \ {<<>>} : P \in ObjPools}}

(* Objects that hold an object. *)
NestedObjects ==
    {Obj1(NameA, Obj2(VStr(<<"x">>), VFloat(7, 0))),
     Obj2(Obj1(NameB, VFloat(7, 0)), VStr(<<"x">>))}

MaxDepth ==
    2

(* v inside n objects, each holding it as its field a. *)
RECURSIVE Nest(_, _)
Nest(v, n) ==
    IF n = 0 THEN v ELSE Obj1(NameA, Nest(v, n - 1))

(* Objects nested to each depth, and arrays whose elements hold them. *)
DeepObjects ==
    {Nest(Obj2(VStr(<<"x">>), VFloat(7, 0)), n) : n \in 1..MaxDepth}

NestedArrays ==
    {VArr(<<Nest(Obj1(NameB, VFloat(7, 0)), n)>>) : n \in 1..MaxDepth}
    \cup {VArr(<<Nest(Obj1(NameB, VFloat(7, 0)), 1), Nest(Obj1(NameB, VFloat(30, 0)), 1)>>)}

FieldVals ==
    ScalarVals \cup ScalarArrays \cup FlatObjects \cup ObjectArrays \cup NestedObjects
    \cup DeepObjects \cup NestedArrays

SecondVals ==
    {VStr(<<"y">>), VFloat(30, 0), VArr(<<VStr(<<"x">>), VStr(<<"y">>)>>)}

(* The top-level objects: field a alone, or fields a and b. *)
TopVals ==
    {Obj1(NameA, v) : v \in FieldVals}
    \cup {Obj2(v, w) : v \in FieldVals, w \in SecondVals}

NoCall ==
    [op |-> "none"]

Threads ==
    {1, 2}

InitShared ==
    /\ parser = NewSchema
    /\ writer = NewSchema
    /\ call = NoCall
    /\ pc = [t \in Threads |-> "idle"]
    /\ loc = [t \in Threads |-> NoCall]

InitRT ==
    /\ InitShared
    /\ src = VNil
    /\ doc = NoCall
    /\ back = NoCall

(***************************************************************************)
(* JSON to MetaDat and back, each on a new Writer and a new Parser.        *)
(***************************************************************************)
Converted(schema, data) ==
    [op |-> "ConvertJSONToMetaDat", schema |-> schema, res |-> WriteMetaDat(schema, data)]

ConvertJSONToMetaDat(v, ord) ==
    /\ doc = NoCall
    /\ src' = v
    /\ doc' = Converted(InferSchemaFromJSON(v, ord), v.o)
    /\ back' = NoCall
    /\ UNCHANGED <<parser, writer, call, pc, loc>>

ParseBack(ord) ==
    /\ doc.op = "ConvertJSONToMetaDat"
    /\ doc.res.ok
    /\ back = NoCall
    /\ back' = [op |-> "ParseMetaDat", res |-> ParseMetaDat(NewSchema, doc.res.s, ord).out]
    /\ UNCHANGED <<parser, writer, call, src, doc, pc, loc>>

NextRT ==
    \/ \E v \in TopVals, ord \in Orders : ConvertJSONToMetaDat(v, ord)
    \/ \E ord \in Orders : ParseBack(ord)

SpecRT ==
    InitRT /\ [][NextRT]_vars

(***************************************************************************)
(* Schema texts.  A declared type is a tree: a scalar, an array of a tree, *)
(* or an object of named trees in their declared order.                    *)
(***************************************************************************)
NameC ==
    <<"c">>

NameD ==
    <<"d">>

Sc(t) ==
    [kind |-> "scalar", t |-> t]

Ar(e) ==
    [kind |-> "array", elem |-> e]

Ob(fs) ==
    [kind |-> "object", fields |-> fs]

(* The type expression of a tree, as the schema grammar writes it. *)
RECURSIVE TypeExpr(_)
RECURSIVE FieldExprs(_)
FieldExprs(fs) ==
    IF fs = <<>> THEN <<>>
    ELSE <<fs[1][1] \o <<":">> \o TypeExpr(fs[1][2])>> \o FieldExprs(Tail(fs))

TypeExpr(tree) ==
    CASE tree.kind = "scalar" -> TypeText(tree.t)
      [] tree.kind = "array"  -> TypeExpr(tree.elem) \o <<"[", "]">>
      [] tree.kind = "object" -> <<"{">> \o Join(FieldExprs(tree.fields), <<"|">>) \o <<"}">>

(* One declaration line of a meta section. *)
Decl(name, typeExpr) ==
    Indent4 \o name \o <<":", " ">> \o typeExpr \o <<"\n">>

RECURSIVE DeclsText(_)
DeclsText(decls) ==
    IF decls = <<>> THEN <<>>
    ELSE Decl(decls[1][1], TypeExpr(decls[1][2])) \o DeclsText(Tail(decls))

(* The field sequences that give the names of nameSeqs types of pool. *)
FieldSeqs(nameSeqs, pool) ==
    UNION {{[i \in 1..Len(ns) |-> <<ns[i], f[i]>>] : f \in [1..Len(ns) -> pool]} :
           ns \in nameSeqs}

Leaves ==
    {Sc("int"), Sc("string"), Sc("bool")}

FlatTrees ==
    {Ob(fs) : fs \in FieldSeqs({<<NameB>>, <<NameB, NameC>>, <<NameC, NameB>>}, Leaves)}

InnerPool ==
    {Sc("int"), Sc("string"), Sc("bool"), Ar(Sc("string")),
     Ob(<<<<NameB, Sc("int")>>, <<NameC, Sc("string")>>>>),
     Ob(<<<<NameC, Sc("bool")>>>>)}

NestedTrees ==
    {Ob(fs) : fs \in FieldSeqs({<<NameA>>, <<NameA, NameD>>, <<NameD, NameA>>}, InnerPool)}

DeepTrees ==
    {Ob(<<<<NameA, t>>, <<NameD, Sc("bool")>>>>) : t \in NestedTrees}

ArrayTrees ==
    {Ar(t) : t \in Leaves \cup FlatTrees}

TypeTrees ==
    Leaves \cup FlatTrees \cup NestedTrees \cup DeepTrees \cup ArrayTrees

DeclPool ==
    {Sc("int"), Ar(Sc("string")), Ob(<<<<NameB, Sc("int")>>, <<NameA, Sc("string")>>>>)}

MaxDecls ==
    3

(* Declaration lists: one field of any tree, or up to MaxDecls fields in   *)
(* any order of names, a name possibly declared again.                     *)
DeclLists ==
    {<<<<NameA, t>>>> : t \in TypeTrees}
    \cup FieldSeqs(UNION {[1..k -> {NameA, NameB, NameC}] : k \in 1..MaxDecls}, DeclPool)

(***************************************************************************)
(* The schema grammar parser and the renderer on declaration lists.        *)
(***************************************************************************)
SchemaParsed(decls) ==
    /\ call = NoCall
    /\ call' = [op |-> "parseSchema", decls |-> decls, res |-> parseSchema(DeclsText(decls))]
    /\ UNCHANGED <<parser, writer, src, doc, back, pc, loc>>

SchemaRendered ==
    /\ call.op = "parseSchema"
    /\ call.res.ok
    /\ call' = [op |-> "ToString", decls |-> call.decls, schema |-> call.res.schema,
                out |-> ToString(call.res.schema)]
    /\ UNCHANGED <<parser, writer, src, doc, back, pc, loc>>

NextSchema ==
    \/ \E decls \in DeclLists : SchemaParsed(decls)
    \/ SchemaRendered

SpecSchema ==
    InitRT /\ [][NextSchema]_vars

(***************************************************************************)
(* One Parser that is given schemas and data sections.                     *)
(***************************************************************************)
MaxDeclared ==
    3

MaxPresent ==
    3

ElemText(i) ==
    IF i % 2 = 1 THEN <<"x">> ELSE <<"y">>

Elems(k) ==
    [i \in 1..k |-> ElemText(i)]

SizedHeader(n, size) ==
    n \o <<"[">> \o FormatNat(size) \o <<"]", ":">>

RECURSIVE BodyLines(_)
BodyLines(elems) ==
    IF elems = <<>> THEN <<>>
    ELSE <<"\n">> \o Indent4 \o Head(elems) \o BodyLines(Tail(elems))

(* What may follow the array in the data section: nothing, or field b. *)
Tails ==
    {<<>>, <<"\n">> \o NameB \o <<":", "\n">> \o Indent4 \o <<"y">>}

(* A data section whose array a declares size and holds present elements,  *)
(* inline after the header or as indented lines below it.                  *)
DataDoc(size, present, form, tail) ==
    [text |-> SizedHeader(NameA, size)
              \o (IF present = 0 THEN <<>>
                  ELSE IF form = "inline" THEN <<" ">> \o Join(Elems(present), <<"|">>)
                  ELSE BodyLines(Elems(present)))
              \o tail,
     declared |-> size,
     present |-> present,
     form |-> IF present = 0 THEN "none" ELSE form]

DataDocs ==
    {DataDoc(size, present, form, tail) :
        size \in 0..MaxDeclared, present \in 0..MaxPresent,
        form \in {"inline", "lines"}, tail \in Tails}

StringArrayExpr ==
    TypeExpr(Ar(Sc("string")))

SchemaTexts ==
    {Decl(NameA, StringArrayExpr),
     Decl(NameA, StringArrayExpr) \o Decl(NameB, TypeText("string")),
     Decl(NameA, TypeExpr(Ar(Ob(<<<<NameA, Sc("string")>>, <<NameB, Sc("string")>>>>))))
        \o Decl(NameB, TypeText("string")),
     Decl(NameB, TypeText("string"))}

SchemaCall(old, schemaContent, r) ==
    [op |-> "ParseSchema", in |-> schemaContent, ok |-> r.ok,
     schema |-> IF r.ok THEN r.schema ELSE old]

(* Parser.ParseSchema. *)
ParseSchema(schemaContent) ==
    /\ call' = SchemaCall(parser, schemaContent, parseSchema(schemaContent))
    /\ parser' = call'.schema
    /\ UNCHANGED <<writer, src, doc, back, pc, loc>>

(* Parser.ParseData on the schema the Parser holds. *)
ParserParseData(d, ord) ==
    /\ call' = [op |-> "ParseData", in |-> d, schema |-> parser,
                res |-> ParseData(parser, d.text, ord)]
    /\ UNCHANGED <<parser, writer, src, doc, back, pc, loc>>

NextData ==
    \/ \E schemaContent \in SchemaTexts : ParseSchema(schemaContent)
    \/ \E d \in DataDocs, ord \in Orders : ParserParseData(d, ord)

SpecData ==
    InitRT /\ [][NextData]_vars

(***************************************************************************)
(* The validator on schemas and value maps.                                *)
(***************************************************************************)
NamesV ==
    {NameA, NameB, NameC}

OrdersV ==
    {o \in [1..3 -> NamesV] : \A i, j \in 1..3 : i # j => o[i] # o[j]}

SchemaOf(decls) ==
    parseSchema(DeclsText(decls)).schema

ValidatedSchemas ==
    {SchemaOf(<<<<NameA, Sc("string")>>>>),
     SchemaOf(<<<<NameA, Sc("string")>>, <<NameB, Sc("int")>>>>),
     SchemaOf(<<<<NameB, Ar(Sc("string"))>>, <<NameA, Sc("bool")>>>>),
     SchemaOf(<<<<NameA, Ob(<<<<NameB, Sc("int")>>>>)>>>>),
     SchemaOf(<<<<NameA, Sc("float64")>>, <<NameB, Sc("string")>>>>)}

ValidatedValues ==
    {VStr(<<"x">>), VFloat(7, 0), VFloat(5, 1), VBool(TRUE),
     VArr(<<VStr(<<"x">>), VStr(<<"y">>)>>),
     VObj([n \in {NameB} |-> VFloat(7, 0)])}

ValidatedMaps ==
    UNION {[K -> ValidatedValues] : K \in SUBSET NamesV}

Validated(s, data, ord, ordData) ==
    /\ call = NoCall
    /\ call' = [op |-> "ValidateData", schema |-> s, data |-> data,
                res |-> ValidateData(s, data, ord, ordData)]
    /\ UNCHANGED <<parser, writer, src, doc, back, pc, loc>>

NextValidate ==
    \E s \in ValidatedSchemas, data \in ValidatedMaps, ord \in OrdersV, ordData \in OrdersV :
        Validated(s, data, ord, ordData)

SpecValidate ==
    InitRT /\ [][NextValidate]_vars

(***************************************************************************)
(* Two calls at a time on one Parser.  Each thread makes one ParseMetaDat  *)
(* call; a step is the code between two accesses of p.schema.  The struct  *)
(* assignment p.schema = schema is not atomic: its two fields are stored   *)
(* one at a time, in either order.                                         *)
(***************************************************************************)
SchemaParts ==
    {"Fields", "FieldOrder"}

RaceVals ==
    {Obj1(NameA, VFloat(7, 0)),
     Obj1(NameB, VStr(<<"x">>)),
     Obj2(VStr(<<"x">>), VFloat(30, 0)),
     Obj2(VArr(<<VStr(<<"x">>), VStr(<<"y">>)>>), VStr(<<"y">>))}

(* The documents of the calls: the encodings of the values above. *)
RaceDocs ==
    {WriteMetaDat(InferSchemaFromJSON(v, <<NameA, NameB>>), v.o).s : v \in RaceVals}

ParseFrame(content, ord) ==
    [doc |-> content, ord |-> ord, schema |-> NewSchema, data |-> <<>>, stored |-> {},
     lines |-> <<>>, i |-> 0, result |-> EmptyMap, res |-> NoCall]

schemaStarted(frame, parsedSchema) ==
    IF ~parsedSchema.ok
    THEN [frame EXCEPT !.res = ParseErr(0, [kind |-> "failed to parse schema",
                                            cause |-> parsedSchema.err])]
    ELSE [frame EXCEPT !.schema = parsedSchema.schema]

parseStarted(frame, sections) ==
    IF Len(sections) # 2
    THEN [frame EXCEPT !.res = ParseErr(0, [kind |-> "invalid MetaDat format"])]
    ELSE schemaStarted([frame EXCEPT !.data = sections[2]],
                       parseSchema(TrimPrefix(sections[1], MetaMarker)))

(* ParseMetaDat up to the assignment of p.schema: locals only. *)
PStart(t, content, ord) ==
    /\ pc[t] = "idle"
    /\ loc' = [loc EXCEPT ![t] = parseStarted(ParseFrame(content, ord),
                                              Split(content, DataMarker))]
    /\ pc' = [pc EXCEPT ![t] = IF loc'[t].res = NoCall THEN "store" ELSE "done"]
    /\ UNCHANGED <<parser, writer, call, src, doc, back>>

(* p.schema = schema, one field of the struct. *)
PStore(t, part) ==
    /\ pc[t] = "store"
    /\ part \notin loc[t].stored
    /\ parser' = [parser EXCEPT ![part] = loc[t].schema[part]]
    /\ loc' = [loc EXCEPT ![t].stored = @ \cup {part}]
    /\ pc' = [pc EXCEPT ![t] = IF loc'[t].stored = SchemaParts THEN "check" ELSE "store"]
    /\ UNCHANGED <<writer, call, src, doc, back>>

(* ParseData: len(p.schema.Fields) == 0, and the split into lines. *)
PCheck(t) ==
    /\ pc[t] = "check"
    /\ loc' = [loc EXCEPT ![t] =
                 IF DOMAIN parser.Fields = {}
                 THEN [loc[t] EXCEPT !.res = ParseErr(0, [kind |-> "no schema loaded"])]
                 ELSE [loc[t] EXCEPT !.lines = DataLines(loc[t].data)]]
    /\ pc' = [pc EXCEPT ![t] = IF loc'[t].res = NoCall THEN "line" ELSE "done"]
    /\ UNCHANGED <<parser, writer, call, src, doc, back>>

stepTaken(frame, step) ==
    IF ~step.ok THEN [frame EXCEPT !.res = step]
    ELSE [frame EXCEPT !.i = step.idx, !.result = step.val]

lineParsed(frame, fields) ==
    IF frame.i >= Len(frame.lines)
    THEN [frame EXCEPT !.res = Parsed(VObj(frame.result), frame.i)]
    ELSE IF TrimSpace(LineAt(frame.lines, frame.i)) = <<>>
    THEN [frame EXCEPT !.i = @ + 1]
    ELSE stepTaken(frame, parseDataStep(fields, frame.lines, frame.i, frame.result, frame.ord))

(* One iteration of ParseData's loop, which reads p.schema.Fields once. *)
PLine(t) ==
    /\ pc[t] = "line"
    /\ loc' = [loc EXCEPT ![t] = lineParsed(loc[t], parser.Fields)]
    /\ pc' = [pc EXCEPT ![t] = IF loc'[t].res = NoCall THEN "line" ELSE "done"]
    /\ UNCHANGED <<parser, writer, call, src, doc, back>>

NextParserRace ==
    \E t \in Threads :
        \/ \E content \in RaceDocs, ord \in Orders : PStart(t, content, ord)
        \/ \E part \in SchemaParts : PStore(t, part)
        \/ PCheck(t)
        \/ PLine(t)

SpecParserRace ==
    InitRT /\ [][NextParserRace]_vars

(***************************************************************************)
(* Two calls at a time on one Writer.  Each thread makes one WriteStruct   *)
(* call; v is the map the struct marshals to, ord the order in which that  *)
(* map is iterated.                                                        *)
(***************************************************************************)
WriteFrame(v, ord) ==
    [v |-> v, ord |-> ord, schema |-> InferSchemaFromJSON(v, ord), stored |-> {},
     meta |-> <<>>, fieldOrder |-> <<>>, buffer |-> <<>>, res |-> NoCall]

(* WriteStruct up to the assignment of w.schema: InferSchemaFromStruct. *)
WStart(t, v, ord) ==
    /\ pc[t] = "idle"
    /\ loc' = [loc EXCEPT ![t] = WriteFrame(v, ord)]
    /\ pc' = [pc EXCEPT ![t] = "store"]
    /\ UNCHANGED <<parser, writer, call, src, doc, back>>

(* w.schema = schema, one field of the struct. *)
WStore(t, part) ==
    /\ pc[t] = "store"
    /\ part \notin loc[t].stored
    /\ writer' = [writer EXCEPT ![part] = loc[t].schema[part]]
    /\ loc' = [loc EXCEPT ![t].stored = @ \cup {part}]
    /\ pc' = [pc EXCEPT ![t] = IF loc'[t].stored = SchemaParts THEN "check" ELSE "store"]
    /\ UNCHANGED <<parser, call, src, doc, back>>

(* WriteMetaDat: len(w.schema.Fields) == 0. *)
WCheck(t) ==
    /\ pc[t] = "check"
    /\ loc' = [loc EXCEPT ![t].res = IF DOMAIN writer.Fields = {}
                                     THEN Fail([kind |-> "no schema defined"])
                                     ELSE NoCall]
    /\ pc' = [pc EXCEPT ![t] = IF loc'[t].res = NoCall THEN "meta" ELSE "done"]
    /\ UNCHANGED <<parser, writer, call, src, doc, back>>

(* schemaStr := w.schema.ToString(), on the copy the call receives. *)
WMeta(t) ==
    /\ pc[t] = "meta"
    /\ loc' = [loc EXCEPT ![t].meta = ToString(writer)]
    /\ pc' = [pc EXCEPT ![t] = "order"]
    /\ UNCHANGED <<parser, writer, call, src, doc, back>>

(* writeData: fieldOrder := w.schema.GetFieldOrder(). *)
WOrder(t) ==
    /\ pc[t] = "order"
    /\ loc' = [loc EXCEPT ![t].fieldOrder = GetFieldOrder(writer)]
    /\ pc' = [pc EXCEPT ![t] = "field"]
    /\ UNCHANGED <<parser, writer, call, src, doc, back>>

fieldStep(frame, step) ==
    IF ~step.ok THEN [frame EXCEPT !.res = step]
    ELSE [frame EXCEPT !.buffer = step.s, !.fieldOrder = Tail(@)]

fieldWritten(frame, fields) ==
    IF frame.fieldOrder = <<>>
    THEN [frame EXCEPT !.res = Ok(MetaMarker \o frame.meta \o DataMarker \o frame.buffer)]
    ELSE fieldStep(frame, writeDataStep(fields, frame.v.o, Head(frame.fieldOrder),
                                        frame.buffer))

(* One iteration of writeData's loop, which reads w.schema.Fields once. *)
WField(t) ==
    /\ pc[t] = "field"
    /\ loc' = [loc EXCEPT ![t] = fieldWritten(loc[t], writer.Fields)]
    /\ pc' = [pc EXCEPT ![t] = IF loc'[t].res = NoCall THEN "field" ELSE "done"]
    /\ UNCHANGED <<parser, writer, call, src, doc, back>>

NextWriterRace ==
    \E t \in Threads :
        \/ \E v \in RaceVals, ord \in Orders : WStart(t, v, ord)
        \/ \E part \in SchemaParts : WStore(t, part)
        \/ WCheck(t)
        \/ WMeta(t)
        \/ WOrder(t)
        \/ WField(t)

SpecWriterRace ==
    InitRT /\ [][NextWriterRace]_vars

(***************************************************************************)
(* One Parser through a sequence of loads and decodes.  A file is its text *)
(* when it can be read.                                                    *)
(***************************************************************************)
File(text) ==
    [ok |-> TRUE, text |-> text]

NoFile ==
    [ok |-> FALSE, text |-> <<>>]

readData(schema, dataFile, ord) ==
    IF ~dataFile.ok THEN ParseErr(0, [kind |-> "failed to read data file"])
    ELSE ParseData(schema, dataFile.text, ord)

filesWithSchema(schema0, parsedSchema, dataFile, ord) ==
    IF ~parsedSchema.ok
    THEN [out |-> ParseErr(0, [kind |-> "failed to parse schema", cause |-> parsedSchema.err]),
          schema |-> schema0]
    ELSE [out |-> readData(parsedSchema.schema, dataFile, ord),
          schema |-> parsedSchema.schema]

(* Parser.ParseFromFiles on a Parser whose schema is schema0: the result   *)
(* and the schema the Parser holds afterwards.                             *)
ParseFromFiles(schema0, schemaFile, dataFile, ord) ==
    IF ~schemaFile.ok
    THEN [out |-> ParseErr(0, [kind |-> "failed to read schema file"]), schema |-> schema0]
    ELSE filesWithSchema(schema0, parseSchema(schemaFile.text), dataFile, ord)

(* Schema texts: two that declare fields, one with a comment only, one     *)
(* with an unknown type.                                                   *)
LoadTexts ==
    {Decl(NameA, TypeText("string")),
     Decl(NameB, TypeText("int")) \o Decl(NameA, StringArrayExpr),
     <<"#", "\n">>,
     Decl(NameA, <<"n", "o">>)}

(* Data sections: entries for a, for b, for both, and a line with no colon. *)
LoadData ==
    {NameA \o <<":", "\n">> \o Indent4 \o <<"x">>,
     NameB \o <<":", "\n">> \o Indent4 \o <<"7">>,
     SizedHeader(NameA, 2) \o <<" ", "x", "|", "y", "\n">> \o NameB \o <<":", " ", "7">>,
     <<"z">>}

(* Whole documents, and one text without a data section. *)
LoadDocs ==
    {[text |-> MetaMarker \o m \o DataMarker \o d, meta |-> File(m)] :
        m \in LoadTexts, d \in LoadData}
    \cup {[text |-> MetaMarker \o Decl(NameA, TypeText("string")), meta |-> NoFile]}

MaxLoads ==
    2

(* What the sequence so far has loaded: the schema of the last load whose  *)
(* schema text parsed, the schema of the last such load that declared a    *)
(* field, the schema of the last load that declared a field and returned   *)
(* no error, and how many loads parsed their schema text.                  *)
NoLoads ==
    [last |-> NewSchema, full |-> NewSchema, good |-> NewSchema, n |-> 0]

LoadsOf(c) ==
    IF c.op = "none" THEN NoLoads ELSE c.loads

loadsWith(before, parsedSchema, returnedOk) ==
    IF ~parsedSchema.ok THEN before
    ELSE [last |-> parsedSchema.schema,
          full |-> IF DOMAIN parsedSchema.schema.Fields # {} THEN parsedSchema.schema
                   ELSE before.full,
          good |-> IF DOMAIN parsedSchema.schema.Fields # {} /\ returnedOk
                   THEN parsedSchema.schema
                   ELSE before.good,
          n |-> IF before.n < MaxLoads THEN before.n + 1 ELSE before.n]

LoadsAfter(before, schemaFile, returnedOk) ==
    IF ~schemaFile.ok THEN before
    ELSE loadsWith(before, parseSchema(schemaFile.text), returnedOk)

Loaded(op, in, r, before, schemaFile) ==
    [op |-> op, in |-> in, res |-> r.out, schema |-> r.schema,
     loads |-> LoadsAfter(before, schemaFile, r.out.ok)]

(* A ParseSchema that stores whatever parseSchema returned, error or not. *)
storeParsedAlways(schema0, parsedSchema) ==
    [out |-> IF parsedSchema.ok THEN Parsed(VNil, 0) ELSE ParseErr(0, parsedSchema.err),
     schema |-> parsedSchema.schema]

(* Parser.ParseSchema on a Parser whose schema is schema0: the error it    *)
(* returns, if any, and the schema the Parser holds afterwards.            *)
storeParsed(schema0, parsedSchema) ==
    [out |-> IF parsedSchema.ok THEN Parsed(VNil, 0) ELSE ParseErr(0, parsedSchema.err),
     schema |-> IF parsedSchema.ok THEN parsedSchema.schema ELSE schema0]

(* p.ParseSchema(schemaContent). *)
LoadSchema(schemaContent) ==
    /\ call' = Loaded("ParseSchema", schemaContent,
                      storeParsed(parser, parseSchema(schemaContent)),
                      LoadsOf(call), File(schemaContent))
    /\ parser' = call'.schema
    /\ UNCHANGED <<writer, src, doc, back, pc, loc>>

(* p.ParseMetaDat(content). *)
LoadMetaDat(d, ord) ==
    /\ call' = Loaded("ParseMetaDat", d.text, ParseMetaDat(parser, d.text, ord),
                      LoadsOf(call), d.meta)
    /\ parser' = call'.schema
    /\ UNCHANGED <<writer, src, doc, back, pc, loc>>

(* p.ParseFromFiles(schemaFile, dataFile). *)
LoadFromFiles(schemaFile, dataFile, ord) ==
    /\ call' = Loaded("ParseFromFiles", <<schemaFile, dataFile>>,
                      ParseFromFiles(parser, schemaFile, dataFile, ord),
                      LoadsOf(call), schemaFile)
    /\ parser' = call'.schema
    /\ UNCHANGED <<writer, src, doc, back, pc, loc>>

(* p.ParseData(dataContent). *)
DecodeData(dataContent, ord) ==
    /\ call' = [op |-> "ParseData", in |-> dataContent, ord |-> ord,
                res |-> ParseData(parser, dataContent, ord), schema |-> parser,
                loads |-> LoadsOf(call)]
    /\ UNCHANGED <<parser, writer, src, doc, back, pc, loc>>

NextParser ==
    \/ \E schemaContent \in LoadTexts : LoadSchema(schemaContent)
    \/ \E d \in LoadDocs, ord \in Orders : LoadMetaDat(d, ord)
    \/ \E schemaFile \in {NoFile} \cup {File(m) : m \in LoadTexts},
          dataFile \in {NoFile} \cup {File(d) : d \in LoadData}, ord \in Orders :
            LoadFromFiles(schemaFile, dataFile, ord)
    \/ \E dataContent \in LoadData, ord \in Orders : DecodeData(dataContent, ord)

SpecParser ==
    InitRT /\ [][NextParser]_vars

(***************************************************************************)
(* ParseData on data sections made of field entries, against one schema.   *)
(* An entry is a header line and the value lines of its field.             *)
(***************************************************************************)
NameE ==
    <<"e">>

PairType ==
    Ob(<<<<NameA, Sc("string")>>, <<NameB, Sc("string")>>>>)

(* a: string, b: int, c: string[], d: {a:string|b:string}. *)
EntrySchema ==
    parseSchema(DeclsText(<<<<NameA, Sc("string")>>, <<NameB, Sc("int")>>,
                            <<NameC, Ar(Sc("string"))>>, <<NameD, PairType>>>>)).schema

Below(text) ==
    <<"\n">> \o Indent4 \o text

Entry(name, form, text) ==
    [name |-> name, form |-> form, text |-> text]

(* Entries as the format writes them and decodes them. *)
PlainEntries ==
    {Entry(NameA, "plain", NameA \o <<":">> \o Below(<<"x">>)),
     Entry(NameA, "plain", NameA \o <<":", " ", "x">>),
     Entry(NameB, "plain", NameB \o <<":">> \o Below(<<"7">>)),
     Entry(NameC, "plain", SizedHeader(NameC, 2) \o <<" ", "x", "|", "y">>),
     Entry(NameC, "plain", SizedHeader(NameC, 2) \o Below(<<"x">>) \o Below(<<"y">>)),
     Entry(NameC, "plain", SizedHeader(NameC, 0)),
     Entry(NameD, "plain", NameD \o <<":">> \o Below(<<"x", "|", "y">>))}

(* Entries of one value: an inline array of one element, an object line of *)
(* one value.                                                              *)
SingleEntries ==
    {Entry(NameC, "single", SizedHeader(NameC, 1) \o <<" ", "x">>),
     Entry(NameD, "single", NameD \o <<":">> \o Below(<<"x">>))}

(* An object header with no value line. *)
BareEntries ==
    {Entry(NameD, "bare", NameD \o <<":">>)}

(* Entries of a field the schema does not declare. *)
UnknownEntries ==
    {Entry(NameE, "unknown", NameE \o <<":">> \o Below(<<"x">>)),
     Entry(NameE, "unknown", NameE \o <<":", " ", "x">>),
     Entry(NameE, "unknown", SizedHeader(NameE, 2) \o <<" ", "x", "|", "y">>)}

Entries ==
    PlainEntries \cup SingleEntries \cup BareEntries \cup UnknownEntries

MaxEntries ==
    3

(* The lists of entries of different fields. *)
EntryLists ==
    {es \in SeqsUpTo(Entries, MaxEntries) :
        \A i, j \in 1..Len(es) : i # j => es[i].name # es[j].name}

RECURSIVE EntriesText(_)
EntriesText(es) ==
    IF es = <<>> THEN <<>>
    ELSE es[1].text \o (IF Len(es) > 1 THEN <<"\n">> ELSE <<>>) \o EntriesText(Tail(es))

(* p.ParseData on the text of the entries, the schema loaded. *)
EntriesParsed(es, ord) ==
    /\ call = NoCall
    /\ call' = [op |-> "ParseData", entries |-> es, schema |-> EntrySchema,
                res |-> ParseData(EntrySchema, EntriesText(es), ord)]
    /\ UNCHANGED <<parser, writer, src, doc, back, pc, loc>>

NextEntries ==
    \E es \in EntryLists, ord \in Orders : EntriesParsed(es, ord)

SpecEntries ==
    InitRT /\ [][NextEntries]_vars

(***************************************************************************)
(* parseSchema on meta sections that hold a declaration line outside the   *)
(* grammar.                                                                *)
(***************************************************************************)
BadLine(name, fault, text) ==
    [name |-> name, fault |-> fault, text |-> text]

(* Type expressions outside the grammar, by what is wrong with them. *)
BadTypes ==
    {<<"keyword", <<"n", "o">>>>,
     <<"keyword", <<"I", "n", "t">>>>,
     <<"keyword", <<"n", "o", "[", "]">>>>,
     <<"braces", <<"{", "b", ":", "i", "n", "t">>>>,
     <<"braces", <<"{", "{", "b", ":", "i", "n", "t", "}">>>>,
     <<"braces", <<"{", "b", ":", "i", "n", "t", "}", "}">>>>,
     <<"braces", <<"{", "b", ":", "{", "c", ":", "i", "n", "t", "}">>>>,
     <<"no pair", <<"{", "}">>>>,
     <<"no pair", <<"{", "}", "[", "]">>>>,
     <<"empty pair", <<"{", "|", "b", ":", "i", "n", "t", "}">>>>,
     <<"empty pair", <<"{", "b", ":", "i", "n", "t", "|", "}">>>>,
     <<"empty pair", <<"{", "b", ":", "i", "n", "t", "|", "|", "c", ":", "i", "n", "t", "}">>>>,
     <<"pair colon", <<"{", "b", "}">>>>,
     <<"pair colon", <<"{", "b", ":", "i", "n", "t", "|", "c", "}">>>>}

(* Lines outside the grammar: a type that is, or no `name:` at all. *)
BadLines ==
    {BadLine(n, t[1], n \o <<":", " ">> \o t[2]) : n \in {NameA, NameC, NameE}, t \in BadTypes}
    \cup {BadLine(n, "no name", n \o <<" ">> \o TypeText("string")) : n \in {NameA, NameC, NameE}}

(* The meta section: the line, a well-formed declaration before or after it or not. *)
BadMeta(line, before, after) ==
    (IF before THEN Decl(NameB, TypeText("int")) ELSE <<>>)
    \o Indent4 \o line.text \o <<"\n">>
    \o (IF after THEN Decl(NameD, TypeText("bool")) ELSE <<>>)

MalformedParsed(line, before, after) ==
    /\ call = NoCall
    /\ call' = [op |-> "parseSchema", line |-> line,
                res |-> parseSchema(BadMeta(line, before, after))]
    /\ UNCHANGED <<parser, writer, src, doc, back, pc, loc>>

NextMalformed ==
    \E line \in BadLines, before \in BOOLEAN, after \in BOOLEAN :
        MalformedParsed(line, before, after)

SpecMalformed ==
    InitRT /\ [][NextMalformed]_vars

(***************************************************************************)
(* parseValue on a scalar header and the line after it.                    *)
(***************************************************************************)
(* A text that converts under the kind. *)
ScalarText(kind) ==
    IF kind = "string" THEN <<"x">>
    ELSE IF kind = "bool" THEN <<"t", "r", "u", "e">>
    ELSE <<"7">>

(* The lines after the header: none, or one line indented or not, with a   *)
(* colon or not, blank or of spaces only.                                  *)
NextLines(kind) ==
    {<<>>,
     <<Indent4 \o ScalarText(kind)>>,
     <<<<"\t">> \o ScalarText(kind)>>,
     <<ScalarText(kind)>>,
     <<Indent4 \o NameB \o <<":", " ">> \o ScalarText(kind)>>,
     <<NameB \o <<":", " ">> \o ScalarText(kind)>>,
     <<<<>>>>,
     <<Indent4>>}

(* parseValue(fieldType, valueStr, lines, 0) for the header line `a: valueStr`. *)
ValueParsed(kind, valueStr, rest, ord) ==
    /\ call = NoCall
    /\ call' = [op |-> "parseValue", kind |-> kind, valueStr |-> valueStr, rest |-> rest,
                res |-> parseValue(FieldType(kind), valueStr,
                                   <<NameA \o <<":", " ">> \o valueStr>> \o rest, 0, ord)]
    /\ UNCHANGED <<parser, writer, src, doc, back, pc, loc>>

NextValues ==
    \E kind \in ScalarNames, inline \in BOOLEAN, ord \in Orders :
        \E rest \in NextLines(kind) :
            ValueParsed(kind, IF inline THEN ScalarText(kind) ELSE <<>>, rest, ord)

SpecValues ==
    InitRT /\ [][NextValues]_vars

(***************************************************************************)
(* ParseData on one object line whose value count and the field count of   *)
(* its type are chosen apart.                                              *)
(***************************************************************************)
MaxFields ==
    3

MaxValues ==
    3

FieldPool ==
    <<NameA, NameB, NameC, NameD, NameE>>

(* {a:string|b:string|...} with k fields. *)
StringObject(k) ==
    Ob([i \in 1..k |-> <<FieldPool[i], Sc("string")>>])

(* The orders in which a range loop may visit the first k names. *)
FieldOrders(k) ==
    {f \in [1..k -> 1..k] : \A j \in 1..k : \E i \in 1..k : f[i] = j}

ValueLines ==
    UNION {[1..m -> {<<"x">>, <<"y">>}] : m \in 1..MaxValues}

(* The data section: field d as an inline object, as an object on the line *)
(* below, or as the one element line of an array of objects.               *)
ObjectData(form, values) ==
    CASE form = "inline"  -> NameD \o <<":", " ">> \o Join(values, <<"|">>)
      [] form = "below"   -> NameD \o <<":">> \o Below(Join(values, <<"|">>))
      [] form = "element" -> SizedHeader(NameD, 1) \o Below(Join(values, <<"|">>))

ObjectSchema(form, k) ==
    parseSchema(Decl(NameD, TypeExpr(IF form = "element" THEN Ar(StringObject(k))
                                     ELSE StringObject(k)))).schema

ObjectLineParsed(form, k, values, ord) ==
    /\ call = NoCall
    /\ call' = [op |-> "ParseData", form |-> form, k |-> k, values |-> values,
                res |-> ParseData(ObjectSchema(form, k), ObjectData(form, values),
                                  [i \in 1..k |-> FieldPool[ord[i]]])]
    /\ UNCHANGED <<parser, writer, src, doc, back, pc, loc>>

NextObjects ==
    \E form \in {"inline", "below", "element"}, k \in 1..MaxFields, values \in ValueLines :
        \E ord \in FieldOrders(k) : ObjectLineParsed(form, k, values, ord)

SpecObjects ==
    InitRT /\ [][NextObjects]_vars

(***************************************************************************)
(* One Writer: SetSchema, then WriteMetaDat on a value whose fields and    *)
(* the schema's need not be the same.                                      *)
(***************************************************************************)
MaxWritten ==
    2

(* Declarations of up to MaxWritten fields as string or string[], a name   *)
(* possibly declared again.                                                *)
WrittenDecls ==
    FieldSeqs(UNION {[1..k -> {NameA, NameB, NameC}] : k \in 1..MaxWritten},
              {Sc("string"), Ar(Sc("string"))})

(* Values with any of the fields a, b, c, each a string or an array. *)
WrittenMaps ==
    UNION {[K -> {VStr(<<"x">>), VArr(<<VStr(<<"x">>), VStr(<<"y">>)>>)}] :
           K \in SUBSET {NameA, NameB, NameC}}

(* w.SetSchema(schema), the schema parsed from the declarations. *)
SetSchema(decls) ==
    /\ call = NoCall
    /\ writer' = SchemaOf(decls)
    /\ UNCHANGED <<parser, call, src, doc, back, pc, loc>>

(* w.WriteMetaDat(data) under the schema set. *)
Write(data) ==
    /\ call = NoCall
    /\ DOMAIN writer.Fields # {}
    /\ call' = [op |-> "WriteMetaDat", schema |-> writer, data |-> data,
                res |-> WriteMetaDat(writer, data)]
    /\ UNCHANGED <<parser, writer, src, doc, back, pc, loc>>

NextWrite ==
    \/ \E decls \in WrittenDecls : SetSchema(decls)
    \/ \E data \in WrittenMaps : Write(data)

SpecWrite ==
    InitRT /\ [][NextWrite]_vars

(***************************************************************************)
(* ValidateData on values whose field a holds an object, or an array of    *)
(* objects, with fields b, c declared and d not.                           *)
(***************************************************************************)
InnerType ==
    Ob(<<<<NameB, Sc("int")>>, <<NameC, Sc("string")>>>>)

NestedSchemas ==
    {SchemaOf(<<<<NameA, InnerType>>>>), SchemaOf(<<<<NameA, Ar(InnerType)>>>>)}

InnerObjects ==
    {VObj(o) : o \in UNION {[K -> {VFloat(7, 0), VStr(<<"x">>)}] :
                            K \in SUBSET {NameB, NameC, NameD}}}

NestedValues ==
    InnerObjects \cup {VArr(<<o>>) : o \in InnerObjects}

NestedValidated(s, v, ord, ordData) ==
    /\ call = NoCall
    /\ call' = [op |-> "ValidateData", schema |-> s, nested |-> v,
                res |-> ValidateData(s, [n \in {NameA} |-> v], ord, ordData)]
    /\ UNCHANGED <<parser, writer, src, doc, back, pc, loc>>

NextNested ==
    \E s \in NestedSchemas, v \in NestedValues, ord \in OrdersV, ordData \in OrdersV :
        NestedValidated(s, v, ord, ordData)

SpecNested ==
    InitRT /\ [][NextNested]_vars

(***************************************************************************)
(* ParseData's loop, one iteration at a time.  The call holds the lines,   *)
(* the cursor i, the cursor before the last iteration, the number n of     *)
(* iterations made and the result map.                                     *)
(***************************************************************************)
MaxLooped ==
    2

(* Object d with its fields on lines of their own, `a: x` and `b:` + `y`. *)
FieldwiseEntry ==
    Entry(NameD, "fieldwise",
          NameD \o <<":">> \o Below(NameA \o <<":", " ", "x">>) \o Below(NameB \o <<":">>)
             \o Below(<<"y">>))

(* The data sections of the loop: entries of up to MaxLooped fields, and   *)
(* the object field by field after them or not.                            *)
LoopedLists ==
    {es \o last : es \in {l \in EntryLists : Len(l) <= MaxLooped},
                  last \in {<<>>, <<FieldwiseEntry>>}}

(* The entries one per line group, a blank line between them or not. *)
RECURSIVE SpacedText(_, _)
SpacedText(es, gap) ==
    IF es = <<>> THEN <<>>
    ELSE es[1].text
         \o (IF Len(es) > 1 THEN (IF gap THEN <<"\n", "\n">> ELSE <<"\n">>) ELSE <<>>)
         \o SpacedText(Tail(es), gap)

Looping(schema, lines, i, from, n, result) ==
    [op |-> "ParseData", at |-> "loop", schema |-> schema, lines |-> lines,
     i |-> i, from |-> from, n |-> n, result |-> result]

Returned(c, res) ==
    [op |-> "ParseData", at |-> "returned", schema |-> c.schema, lines |-> c.lines,
     i |-> c.i, from |-> c.from, n |-> c.n, result |-> c.result, res |-> res]

(* The statements before the loop. *)
ParseDataEnter(schema, dataContent) ==
    /\ call = NoCall
    /\ call' = IF DOMAIN schema.Fields = {}
               THEN Returned(Looping(schema, <<>>, 0, 0, 0, EmptyMap),
                             ParseErr(0, [kind |-> "no schema loaded"]))
               ELSE Looping(schema, DataLines(dataContent), 0, 0, 0, EmptyMap)
    /\ UNCHANGED <<parser, writer, src, doc, back, pc, loc>>

(* An iteration at a blank line. *)
ParseDataBlank ==
    /\ call.op = "ParseData" /\ call.at = "loop"
    /\ call.i < Len(call.lines)
    /\ TrimSpace(LineAt(call.lines, call.i)) = <<>>
    /\ call' = Looping(call.schema, call.lines, call.i + 1, call.i, call.n + 1, call.result)
    /\ UNCHANGED <<parser, writer, src, doc, back, pc, loc>>

afterStep(c, step) ==
    IF ~step.ok THEN Returned(c, step)
    ELSE Looping(c.schema, c.lines, step.idx, c.i, c.n + 1, step.val)

(* An iteration at a header line: the field is decoded and stored, or the  *)
(* error is returned.                                                      *)
ParseDataField(ord) ==
    /\ call.op = "ParseData" /\ call.at = "loop"
    /\ call.i < Len(call.lines)
    /\ TrimSpace(LineAt(call.lines, call.i)) # <<>>
    /\ call' = afterStep(call, parseDataStep(call.schema.Fields, call.lines, call.i,
                                             call.result, ord))
    /\ UNCHANGED <<parser, writer, src, doc, back, pc, loc>>

(* The loop condition fails: the result is returned. *)
ParseDataReturn ==
    /\ call.op = "ParseData" /\ call.at = "loop"
    /\ call.i >= Len(call.lines)
    /\ call' = Returned(call, Parsed(VObj(call.result), call.i))
    /\ UNCHANGED <<parser, writer, src, doc, back, pc, loc>>

ParseDataIterate ==
    \/ ParseDataBlank
    \/ \E ord \in Orders : ParseDataField(ord)
    \/ ParseDataReturn

NextLoop ==
    \/ \E schema \in {NewSchema, EntrySchema}, es \in LoopedLists, gap \in BOOLEAN :
           ParseDataEnter(schema, SpacedText(es, gap))
    \/ ParseDataIterate

SpecLoop ==
    InitRT /\ [][NextLoop]_vars

(***************************************************************************)
(* WriteMetaDat on one object of a declared type, the object holding any   *)
(* of the declared fields, and ParseMetaDat on the text.                   *)
(***************************************************************************)
(* The objects with some of the first k fields, each value x, y or z. *)
PartObjects(k) ==
    UNION {[K -> {<<"x">>, <<"y">>, <<"z">>}] : K \in SUBSET {FieldPool[i] : i \in 1..k}}

StringsOf(o) ==
    VObj([n \in DOMAIN o |-> VStr(o[n])])

(* The value of field d: the object, or the array of the one object. *)
ObjectValue(form, o) ==
    [n \in {NameD} |-> IF form = "element" THEN VArr(<<StringsOf(o)>>) ELSE StringsOf(o)]

ObjectWritten(form, k, o) ==
    /\ call = NoCall
    /\ call' = [op |-> "WriteMetaDat", form |-> form, k |-> k, obj |-> o,
                res |-> WriteMetaDat(ObjectSchema(form, k), ObjectValue(form, o))]
    /\ back' = NoCall
    /\ UNCHANGED <<parser, writer, src, doc, pc, loc>>

ObjectReadBack(ord) ==
    /\ call.op = "WriteMetaDat" /\ call.res.ok
    /\ back = NoCall
    /\ back' = [op |-> "ParseMetaDat", res |-> ParseMetaDat(NewSchema, call.res.s, ord).out]
    /\ UNCHANGED <<parser, writer, call, src, doc, pc, loc>>

NextAligned ==
    \/ \E form \in {"below", "element"}, k \in 1..MaxFields :
           \E o \in PartObjects(k) : ObjectWritten(form, k, o)
    \/ \E ord \in Orders : ObjectReadBack(ord)

SpecAligned ==
    InitRT /\ [][NextAligned]_vars

(***************************************************************************)
(* ParseData on an array of a scalar kind, then ValidateData on the value  *)
(* it returned.                                                            *)
(***************************************************************************)
(* Two texts that convert under the kind. *)
ElementTexts(kind) ==
    IF kind = "string" THEN {<<"x">>, <<"y">>}
    ELSE IF kind = "bool" THEN {<<"t", "r", "u", "e">>, <<"f", "a", "l", "s", "e">>}
    ELSE IF kind \in {"float32", "float64"} THEN {<<"7">>, <<"0", ".", "5">>}
    ELSE {<<"7">>, <<"3", "0">>}

ElementLists(kind) ==
    UNION {[1..n -> ElementTexts(kind)] : n \in 1..MaxElems}

(* The array on the header line, or as indented lines below it. *)
ArrayData(form, elems) ==
    IF form = "inline" THEN SizedHeader(NameA, Len(elems)) \o <<" ">> \o Join(elems, <<"|">>)
    ELSE SizedHeader(NameA, Len(elems)) \o BodyLines(elems)

TypedArrayParsed(kind, form, elems, ord) ==
    /\ call = NoCall
    /\ call' = [op |-> "ParseData", kind |-> kind, array |-> form,
                schema |-> SchemaOf(<<<<NameA, Ar(Sc(kind))>>>>),
                res |-> ParseData(SchemaOf(<<<<NameA, Ar(Sc(kind))>>>>),
                                  ArrayData(form, elems), ord)]
    /\ back' = NoCall
    /\ UNCHANGED <<parser, writer, src, doc, pc, loc>>

(* schema.ValidateData on the value ParseData returned. *)
ParsedValidated(ord, ordData) ==
    /\ call.op = "ParseData" /\ call.res.ok
    /\ back = NoCall
    /\ back' = [op |-> "ValidateData",
                res |-> ValidateData(call.schema, call.res.val.o, ord, ordData)]
    /\ UNCHANGED <<parser, writer, call, src, doc, pc, loc>>

NextConform ==
    \/ \E kind \in ScalarNames, form \in {"inline", "lines"}, ord \in Orders :
           \E elems \in ElementLists(kind) : TypedArrayParsed(kind, form, elems, ord)
    \/ \E ord \in OrdersV, ordData \in OrdersV : ParsedValidated(ord, ordData)

SpecConform ==
    InitRT /\ [][NextConform]_vars

(***************************************************************************)
(* One Writer through a sequence of SetSchema, WriteStruct and              *)
(* WriteSeparated calls.  A struct is the map it marshals to.              *)
(***************************************************************************)
WriterVals ==
    {VObj(EmptyMap),
     Obj1(NameA, VStr(<<"x">>)), Obj1(NameA, VFloat(7, 0)),
     Obj1(NameB, VStr(<<"y">>)), Obj1(NameB, VArr(<<VStr(<<"x">>), VStr(<<"y">>)>>)),
     Obj2(VStr(<<"x">>), VStr(<<"y">>)), Obj2(VFloat(7, 0), VBool(TRUE))}

(* The two texts WriteSeparated returns, or its error. *)
Separated(schemaStr, dataStr) ==
    IF ~dataStr.ok THEN [ok |-> FALSE, schema |-> <<>>, data |-> <<>>, err |-> dataStr.err]
    ELSE [ok |-> TRUE, schema |-> schemaStr, data |-> dataStr.s, err |-> <<>>]

(* The schema WriteSeparated writes with: it infers one from a struct only *)
(* when the Writer holds none.                                             *)
schemaToWrite(schema0, v, asMap, ord) ==
    IF ~asMap /\ DOMAIN schema0.Fields = {} THEN InferSchemaFromJSON(v, ord) ELSE schema0

writeSeparated(schema, data) ==
    IF DOMAIN schema.Fields = {}
    THEN [ok |-> FALSE, schema |-> <<>>, data |-> <<>>, err |-> [kind |-> "no schema defined"]]
    ELSE Separated(ToString(schema), writeData(schema, data))

(* w.WriteStruct(v). *)
WriteStruct(v, ord) ==
    /\ writer' = InferSchemaFromJSON(v, ord)
    /\ call' = [op |-> "WriteStruct", v |-> v, ord |-> ord,
                res |-> WriteMetaDat(writer', v.o)]
    /\ UNCHANGED <<parser, src, doc, back, pc, loc>>

(* w.WriteSeparated(v), v a struct or, asMap, a map. *)
WriteSeparated(v, asMap, ord) ==
    /\ writer' = schemaToWrite(writer, v, asMap, ord)
    /\ call' = [op |-> "WriteSeparated", v |-> v, asMap |-> asMap, ord |-> ord,
                res |-> writeSeparated(writer', v.o)]
    /\ UNCHANGED <<parser, src, doc, back, pc, loc>>

NextWriter ==
    \/ \E decls \in WrittenDecls : SetSchema(decls)
    \/ \E v \in WriterVals, ord \in Orders : WriteStruct(v, ord)
    \/ \E v \in WriterVals, asMap \in BOOLEAN, ord \in Orders : WriteSeparated(v, asMap, ord)

SpecWriter ==
    InitRT /\ [][NextWriter]_vars

(***************************************************************************)
(* ParseData on a data section in the writer's layout, and on the same     *)
(* section with every line indented one level further.                     *)
(***************************************************************************)
(* Entries in the writer's layout: the plain ones, an array with no        *)
(* declared size, and a string with an empty value.                        *)
LayoutEntries ==
    PlainEntries
    \cup {Entry(NameC, "unsized", NameC \o <<":">> \o Below(<<"x">>) \o Below(<<"y">>)),
          Entry(NameA, "empty", NameA \o <<":">> \o Below(<<>>))}

LayoutLists ==
    {es \in SeqsUpTo(LayoutEntries, MaxEntries) :
        \A i, j \in 1..Len(es) : i # j => es[i].name # es[j].name}

(* The text with every line indented by one further level. *)
Shifted(text) ==
    Join([i \in DOMAIN Split(text, <<"\n">>) |-> Indent4 \o Split(text, <<"\n">>)[i]],
         <<"\n">>)

(* p.ParseData on the shifted text of the entries parsed before. *)
ShiftedParsed(ord) ==
    /\ call.op = "ParseData" /\ "entries" \in DOMAIN call
    /\ back = NoCall
    /\ back' = [op |-> "ParseData",
                res |-> ParseData(call.schema, Shifted(EntriesText(call.entries)), ord)]
    /\ UNCHANGED <<parser, writer, call, src, doc, pc, loc>>

NextIndent ==
    \/ \E es \in LayoutLists, ord \in Orders : EntriesParsed(es, ord)
    \/ \E ord \in Orders : ShiftedParsed(ord)

SpecIndent ==
    InitRT /\ [][NextIndent]_vars

(***************************************************************************)
(* Reading a produced document back as text.                               *)
(***************************************************************************)
(* The lines of the data section of a document. *)
DataSectionLines(text) ==
    Split(Split(text, DataMarker)[2], <<"\n">>)

(* The number of the line that is the array header of field n. *)
ArrayLine(lines, n) ==
    CHOOSE i \in 1..Len(lines) : HasPrefix(lines[i], n \o <<"[">>)

(* The indented lines that follow one another from line i on. *)
RECURSIVE BodyCount(_, _)
BodyCount(lines, i) ==
    IF i > Len(lines) THEN 0
    ELSE IF HasPrefix(lines[i], Indent4) THEN 1 + BodyCount(lines, i + 1)
    ELSE 0

(* The elements written for the header at line i: the inline values after  *)
(* the colon, or else the body lines below it.                             *)
ElementsWritten(lines, i) ==
    LET rest == TrimSpace(Slice(lines[i], Index(lines[i], <<":">>) + 1, Len(lines[i])))
    IN  IF rest # <<>> THEN Len(Split(rest, <<"|">>)) ELSE BodyCount(lines, i + 1)

IsNum(v) ==
    v.k \in {"float64", "float32", "int"}

NumOf(v) ==
    IF v.k = "int" THEN [m |-> v.n, d |-> 0] ELSE [m |-> v.m, d |-> v.d]

(* Equality of value trees field for field: the same keys, the same element *)
(* counts, the same scalars; a number is the same number whether it is held *)
(* as a float64 or as an int, and is never the same as its text.            *)
RECURSIVE ValEq(_, _)
ValEq(v, w) ==
    IF IsNum(v) THEN IsNum(w) /\ NumOf(v) = NumOf(w)
    ELSE IF v.k = "array"
    THEN w.k = "array" /\ Len(v.a) = Len(w.a)
         /\ \A i \in 1..Len(v.a) : ValEq(v.a[i], w.a[i])
    ELSE IF v.k = "object"
    THEN w.k = "object" /\ DOMAIN v.o = DOMAIN w.o
         /\ \A n \in DOMAIN v.o : ValEq(v.o[n], w.o[n])
    ELSE v = w

Converted1 ==
    doc # NoCall

ParsedBack ==
    back # NoCall

(***************************************************************************)
(* C1.  Round trip: for every value tree of the input set, inferring its   *)
(* schema, encoding it and parsing the text succeeds and returns a value   *)
(* equal to the tree field for field.                                      *)
(***************************************************************************)
RoundTripIdentity ==
    /\ Converted1 => doc.res.ok
    /\ ParsedBack => back.res.ok /\ ValEq(src, back.res.val)

(***************************************************************************)
(* C2.  Every array field of N elements is written with the header         *)
(* name[N]: and N is the number of elements written after it, inline or as *)
(* body lines.                                                             *)
(***************************************************************************)
HeaderDeclaresWritten(lines, n, arr) ==
    /\ \E i \in 1..Len(lines) : HasPrefix(lines[i], n \o <<"[">>)
    /\ ElementsWritten(lines, ArrayLine(lines, n)) = Len(arr)
    /\ HasPrefix(lines[ArrayLine(lines, n)],
                 n \o <<"[">> \o FormatNat(ElementsWritten(lines, ArrayLine(lines, n)))
                   \o <<"]", ":">>)

(* C2: in every written document, each array field of N elements has the  *)
(* header name[N]: and N elements written after it.                        *)
ArrayHeaderCount ==
    (Converted1 /\ doc.res.ok) =>
        \A n \in DOMAIN src.o :
            src.o[n].k = "array" =>
                HeaderDeclaresWritten(DataSectionLines(doc.res.s), n, src.o[n].a)

(* An array of two objects has been written as two body lines. *)
ArrayHeaderCountWitness ==
    /\ Converted1 /\ doc.res.ok
    /\ NameA \in DOMAIN src.o
    /\ src.o[NameA].k = "array"
    /\ Len(src.o[NameA].a) = 2
    /\ src.o[NameA].a[1].k = "object"
    /\ BodyCount(DataSectionLines(doc.res.s), 2) = 2

(***************************************************************************)
(* C4.  A string array of N >= 1 elements is encoded as the one line       *)
(* name[N]: v1|...|vN, and parsing that line returns the same list.        *)
(***************************************************************************)
IsStringList(v) ==
    v.k = "array" /\ Len(v.a) >= 1 /\ \A i \in 1..Len(v.a) : v.a[i].k = "string"

RECURSIVE Texts(_)
Texts(items) ==
    IF items = <<>> THEN <<>> ELSE <<Head(items).s>> \o Texts(Tail(items))

InlineLine(n, arr) ==
    n \o <<"[">> \o FormatNat(Len(arr)) \o <<"]", ":", " ">> \o Join(Texts(arr), <<"|">>)

(* C4: a lone field a holding N >= 1 strings is written as the one line    *)
(* a[N]: v1|...|vN, and the text parses back to the same list.             *)
StringArrayInline ==
    (Converted1 /\ DOMAIN src.o = {NameA} /\ IsStringList(src.o[NameA])) =>
        /\ doc.res.ok
        /\ DataSectionLines(doc.res.s) = <<InlineLine(NameA, src.o[NameA].a), <<>>>>
        /\ ParsedBack => back.res.ok /\ back.res.val = src

(***************************************************************************)
(* C5.  An object with k >= 1 scalar fields is encoded as the one line     *)
(* v1|...|vk in the field order of its type, and parsing that encoding as  *)
(* a top-level object field returns the mapping of the fields to their     *)
(* values, each of its field's kind.                                       *)
(***************************************************************************)
IsFlatObject(v) ==
    v.k = "object" /\ DOMAIN v.o # {}
    /\ \A n \in DOMAIN v.o : v.o[n].k \in {"string", "float64", "bool"}

RECURSIVE ValuesIn(_, _)
ValuesIn(o, order) ==
    IF order = <<>> THEN <<>> ELSE <<Sprint(o[Head(order)])>> \o ValuesIn(o, Tail(order))

ObjectLine(o, type) ==
    Indent4 \o Join(ValuesIn(o, type.ObjectOrder), <<"|">>)

FieldLines(lines, header, body) ==
    \E i \in 1..(Len(lines) - 1) : lines[i] = header /\ lines[i + 1] = body

(* C5: field a holding an object of k >= 1 scalars is written as a: and    *)
(* the line v1|...|vk, and the text parses back to the same mapping.       *)
FlatObjectLine ==
    (Converted1 /\ IsFlatObject(src.o[NameA])) =>
        /\ doc.res.ok
        /\ FieldLines(DataSectionLines(doc.res.s), NameA \o <<":">>,
                      ObjectLine(src.o[NameA].o, doc.schema.Fields[NameA]))
        /\ ParsedBack =>
              /\ back.res.ok
              /\ NameA \in DOMAIN back.res.val.o
              /\ ValEq(src.o[NameA], back.res.val.o[NameA])

(***************************************************************************)
(* C3.  A data line that declares an array size different from the number  *)
(* of elements present makes ParseData fail with the size-mismatch error,  *)
(* whichever is larger.                                                    *)
(***************************************************************************)
IsArrayField(schema, n) ==
    n \in DOMAIN schema.Fields /\ schema.Fields[n].Type = "array"

IsSizeMismatch(e) ==
    e.kind = "error parsing field" /\ e.cause.kind = "array size mismatch"

(* C3: ParseData of a document whose array a declares a size other than    *)
(* the number of elements present fails with the size-mismatch error.      *)
SizeMismatchRejected ==
    (call.op = "ParseData" /\ IsArrayField(call.schema, NameA)
     /\ call.in.declared # call.in.present) =>
        (~call.res.ok /\ IsSizeMismatch(call.res.err))

(***************************************************************************)
(* C6.  A pipe inside a deeper pair of braces does not end a field: the    *)
(* type parsed from a nested object expression has the top-level fields of *)
(* the expression, in order, each with its whole type.                     *)
(***************************************************************************)
(* The position of the last declaration of name n. *)
LastDecl(decls, n) ==
    CHOOSE i \in 1..Len(decls) : decls[i][1] = n /\ \A j \in (i + 1)..Len(decls) : decls[j][1] # n

DeclNames(decls) ==
    [i \in 1..Len(decls) |-> decls[i][1]]

(* The FieldType a tree declares. *)
RECURSIVE Declared(_)
Declared(tree) ==
    CASE tree.kind = "scalar" -> FieldType(tree.t)
      [] tree.kind = "array"  -> [FieldType("array") EXCEPT !.ElementType = Declared(tree.elem)]
      [] tree.kind = "object" ->
            [Type |-> "object",
             ElementType |-> NoType,
             ObjectFields |-> [n \in {tree.fields[i][1] : i \in 1..Len(tree.fields)} |->
                                 [Declared(tree.fields[LastDecl(tree.fields, n)][2])
                                    EXCEPT !.Name = n]],
             ObjectOrder |-> DeclNames(tree.fields),
             Name |-> <<>>]

(* C6: parseSchema of the text of a declaration list succeeds and gives    *)
(* each name the type its declaration states, nested fields included.      *)
NestedFieldsKept ==
    call.op = "parseSchema" =>
        /\ call.res.ok
        /\ DOMAIN call.res.schema.Fields = {call.decls[i][1] : i \in 1..Len(call.decls)}
        /\ \A n \in DOMAIN call.res.schema.Fields :
              call.res.schema.Fields[n] = Declared(call.decls[LastDecl(call.decls, n)][2])

(* The expression {a:{b:int|c:string}|d:bool} has been parsed. *)
NestedFieldsKeptWitness ==
    /\ call.op = "parseSchema"
    /\ call.res.ok
    /\ call.decls = <<<<NameA, Ob(<<<<NameA, Ob(<<<<NameB, Sc("int")>>,
                                                  <<NameC, Sc("string")>>>>)>>,
                                    <<NameD, Sc("bool")>>>>)>>>>
    /\ call.res.schema.Fields[NameA].ObjectOrder = <<NameA, NameD>>

(***************************************************************************)
(* C7.  ValidateData returns an error that names the undeclared field      *)
(* whenever the value has one, whatever its other fields are, and no error *)
(* because a declared field is absent.                                     *)
(***************************************************************************)
Undeclared(s, data) ==
    DOMAIN data \ DOMAIN s.Fields

(* Every declared field the value has is of its declared kind. *)
PresentFieldsFit(s, data) ==
    \A n \in DOMAIN data \cap DOMAIN s.Fields :
        validateValue(data[n], s.Fields[n], <<NameA, NameB, NameC>>).ok

NamesUndeclared(res, s, data) ==
    ~res.ok /\ res.err.kind = "unknown field" /\ res.err.field \in Undeclared(s, data)

(* C7, as claimed: a value with an undeclared field is rejected with the   *)
(* error that names it, whatever its other fields are; absent declared     *)
(* fields cause no error.                                                  *)
UnknownFieldNamed ==
    call.op = "ValidateData" =>
        /\ Undeclared(call.schema, call.data) # {} =>
              NamesUndeclared(call.res, call.schema, call.data)
        /\ (Undeclared(call.schema, call.data) = {}
            /\ PresentFieldsFit(call.schema, call.data)) => call.res.ok

(* C7, as amended: an undeclared field always makes ValidateData fail; the *)
(* error names an undeclared field when every declared field the value has *)
(* fits its kind; a declared field that is absent causes no error.         *)
UnknownFieldRejected ==
    call.op = "ValidateData" =>
        /\ Undeclared(call.schema, call.data) # {} => ~call.res.ok
        /\ (Undeclared(call.schema, call.data) # {}
            /\ PresentFieldsFit(call.schema, call.data)) =>
              NamesUndeclared(call.res, call.schema, call.data)
        /\ (Undeclared(call.schema, call.data) = {}
            /\ PresentFieldsFit(call.schema, call.data)) => call.res.ok

(* A value with a fitting declared field, an undeclared field and an       *)
(* absent declared field has been rejected.                                *)
UnknownFieldRejectedWitness ==
    /\ call.op = "ValidateData"
    /\ DOMAIN call.schema.Fields = {NameA, NameB}
    /\ DOMAIN call.data = {NameA, NameC}
    /\ PresentFieldsFit(call.schema, call.data)
    /\ ~call.res.ok
    /\ call.res.err.field = NameC

(***************************************************************************)
(* C8.  ToString lists the fields of a schema parsed from text in their    *)
(* order of declaration, and renders every object type with its fields in  *)
(* their declared order.                                                   *)
(***************************************************************************)
(* The lines that list the declared names in order, each with the type the *)
(* schema holds for its name: the one declared last.                       *)
RECURSIVE ListedFrom(_, _)
ListedFrom(decls, i) ==
    IF i > Len(decls) THEN <<>>
    ELSE Decl(decls[i][1], TypeExpr(decls[LastDecl(decls, decls[i][1])][2]))
         \o ListedFrom(decls, i + 1)

(* C8: the text ToString returns lists the declarations in their order,    *)
(* each with its type rendered in declared field order.                    *)
DeclarationOrderKept ==
    call.op = "ToString" => call.out = ListedFrom(call.decls, 1)

(* Three fields declared in the order c, a, b, the last an object whose    *)
(* fields are declared b then a, have been rendered.                       *)
DeclarationOrderKeptWitness ==
    /\ call.op = "ToString"
    /\ DeclNames(call.decls) = <<NameC, NameA, NameB>>
    /\ call.decls[3][2].kind = "object"
    /\ call.out = DeclsText(call.decls)

(***************************************************************************)
(* C9.  Two ParseMetaDat calls at a time on one Parser: each returns what  *)
(* it returns when it runs alone.                                          *)
(***************************************************************************)
ParserCallsIndependent ==
    \A t \in Threads :
        pc[t] = "done" => loc[t].res = ParseMetaDat(NewSchema, loc[t].doc, loc[t].ord).out

(***************************************************************************)
(* C10.  Two WriteStruct calls at a time on one Writer: each returns the   *)
(* text it returns when it runs alone.                                     *)
(***************************************************************************)
WriterCallsIndependent ==
    \A t \in Threads :
        pc[t] = "done" =>
            loc[t].res = WriteMetaDat(InferSchemaFromJSON(loc[t].v, loc[t].ord), loc[t].v.o)

(***************************************************************************)
(* C11.  ParseData needs a loaded schema and decodes against the last one  *)
(* loaded.                                                                 *)
(***************************************************************************)
NoSchemaError(res) ==
    ~res.ok /\ res.err.kind = "no schema loaded" /\ res.val = VNil

IsIntegral(v) ==
    v.k = "int" \/ (v.k \in {"float64", "float32"} /\ v.d = 0)

(* The value has the kind the type declares: an integral number for an     *)
(* integer, a number for a float, elements and fields of their kinds.      *)
RECURSIVE HasKind(_, _)
HasKind(v, ft) ==
    CASE ft.Type = "string" -> v.k = "string"
      [] ft.Type \in {"int", "int32", "int64"} -> IsIntegral(v)
      [] ft.Type \in {"float32", "float64"} -> IsNum(v)
      [] ft.Type = "bool" -> v.k = "bool"
      [] ft.Type = "array" ->
            /\ v.k = "array"
            /\ ft.ElementType # NoType =>
                  \A i \in 1..Len(v.a) : HasKind(v.a[i], ft.ElementType)
      [] ft.Type = "object" ->
            /\ v.k = "object"
            /\ \A n \in DOMAIN v.o \cap DOMAIN ft.ObjectFields :
                  HasKind(v.o[n], ft.ObjectFields[n])
      [] OTHER -> FALSE

(* The present fields whose kind is not the declared one. *)
Mismatched(s, data) ==
    {n \in DOMAIN data \cap DOMAIN s.Fields : ~HasKind(data[n], s.Fields[n])}

(* C12: a value with a present field of another kind than declared is     *)
(* rejected with the validation error that names such a field, and a value *)
(* whose fields are all declared and of their declared kinds is accepted.  *)
KindMismatchNamed ==
    call.op = "ValidateData" =>
        /\ Mismatched(call.schema, call.data) # {} =>
              /\ ~call.res.ok
              /\ call.res.err.kind = "validation error"
              /\ call.res.err.field \in Mismatched(call.schema, call.data)
        /\ (Mismatched(call.schema, call.data) = {}
            /\ Undeclared(call.schema, call.data) = {}) => call.res.ok

(***************************************************************************)
(* C13.  A field line of an undeclared name makes ParseData fail with the  *)
(* unknown-field error.                                                    *)
(***************************************************************************)
FirstUnknown(es) ==
    CHOOSE i \in 1..Len(es) : es[i].form = "unknown"

(* The entries before the undeclared one decode when they stand alone. *)
DecodedBefore(es) ==
    ParseData(EntrySchema, EntriesText(SubSeq(es, 1, FirstUnknown(es) - 1)),
              <<NameA, NameB>>).ok

(* C13: when the entries before it decode, the entry of an undeclared      *)
(* field makes ParseData fail with the unknown-field error that names the  *)
(* field, and no value is returned.                                        *)
UnknownLineRejected ==
    (/\ call.op = "ParseData"
     /\ \E i \in 1..Len(call.entries) : call.entries[i].form = "unknown"
     /\ FirstUnknown(call.entries) > 1 => DecodedBefore(call.entries)) =>
        /\ ~call.res.ok
        /\ call.res.err.kind = "unknown field"
        /\ call.res.err.field = NameE
        /\ call.res.val = VNil

(***************************************************************************)
(* C17.  ParseData returns the fields that have an entry, and only those.  *)
(***************************************************************************)
EntryNames(es) ==
    {es[i].name : i \in 1..Len(es)}

WellFormed(es) ==
    \A i \in 1..Len(es) : es[i].form \in {"plain", "single"}

(* C17: a data section of well-formed entries of declared fields, in any   *)
(* order, is decoded to a mapping whose keys are the fields of the entries. *)
EntriesAreKeys ==
    (call.op = "ParseData" /\ WellFormed(call.entries)) =>
        /\ call.res.ok
        /\ DOMAIN call.res.val.o = EntryNames(call.entries)

(***************************************************************************)
(* C14.  Objects nested in objects, and in the elements of arrays, are     *)
(* written and parsed back as equal nested objects.                        *)
(***************************************************************************)
HoldsObject(v) ==
    v.k = "object" /\ \E n \in DOMAIN v.o : v.o[n].k = "object"

(* The value is an object that holds an object, or an array of them. *)
IsNested(v) ==
    \/ HoldsObject(v)
    \/ v.k = "array" /\ \E i \in 1..Len(v.a) : HoldsObject(v.a[i])

(* C14: a tree whose field a holds an object nested in an object, or in an *)
(* element of an array, is written without error, and parsing the text     *)
(* returns an equal tree.                                                  *)
NestedObjectsKept ==
    (Converted1 /\ IsNested(src.o[NameA])) =>
        /\ doc.res.ok
        /\ ParsedBack => back.res.ok /\ ValEq(src, back.res.val)

(***************************************************************************)
(* C15.  Encoding is deterministic: the text does not depend on the order  *)
(* in which the input map is iterated.                                     *)
(***************************************************************************)
(* C15: the text returned for a value is the text returned for it under    *)
(* every order of iteration of its maps.                                   *)
EncodingDeterministic ==
    Converted1 =>
        \A ord \in Orders :
            doc.res = WriteMetaDat(InferSchemaFromJSON(src, ord), src.o)

(***************************************************************************)
(* C16.  A declaration line outside the grammar makes parseSchema fail.    *)
(***************************************************************************)
(* C16: parseSchema on a meta section holding a malformed declaration line *)
(* returns an error, which names the field of the line when it has one,    *)
(* and no schema.                                                          *)
MalformedRejected ==
    (call.op = "parseSchema" /\ "line" \in DOMAIN call) =>
        /\ ~call.res.ok
        /\ call.line.fault # "no name" => call.res.err.field = call.line.name

(***************************************************************************)
(* C18.  The look-ahead of scalar decoding.                                *)
(***************************************************************************)
(* The next line is the value under the rule of the format: the inline     *)
(* value is empty, a next line exists, is indented and holds no colon.     *)
AheadByRule(c) ==
    /\ c.valueStr = <<>>
    /\ c.rest # <<>>
    /\ IsIndented(c.rest[1])
    /\ ~Contains(c.rest[1], <<":">>)

(* The result of decoding text under the kind, the cursor then at idx. *)
ScalarOf(kind, text, idx) ==
    IF kind = "string" THEN Parsed(VStr(text), idx)
    ELSE parseScalar(FieldType(kind), text, idx - 1)

ScalarByRule(c, ahead) ==
    ScalarOf(c.kind, IF ahead THEN TrimSpace(c.rest[1]) ELSE c.valueStr,
             IF ahead THEN 2 ELSE 1)

SameDecoding(res, exp) ==
    /\ res.ok = exp.ok
    /\ res.ok => (res.val = exp.val /\ res.idx = exp.idx)

(* C18: for every scalar kind the next line is taken, and the cursor moves *)
(* by two lines, exactly when the inline value is empty and the next line  *)
(* is indented and without colon; else the inline text is decoded and the  *)
(* cursor moves by one line.                                               *)
LookAheadByRule ==
    call.op = "parseValue" =>
        SameDecoding(call.res, ScalarByRule(call, AheadByRule(call)))

(***************************************************************************)
(* C19.  An object line with more or fewer values than declared fields.    *)
(***************************************************************************)
Min(a, b) ==
    IF a < b THEN a ELSE b

(* The first n declared fields, field i holding value i. *)
FirstFields(values, n) ==
    VObj([name \in {FieldPool[i] : i \in 1..n} |->
             VStr(values[CHOOSE i \in 1..n : FieldPool[i] = name])])

ObjectDecoded(c) ==
    IF c.form = "element" THEN c.res.val.o[NameD].a[1] ELSE c.res.val.o[NameD]

(* C19: an object line of m values for a type of k fields decodes to the   *)
(* first min(m, k) declared fields, as a top-level object field and as an  *)
(* element line of an array of objects.                                    *)
ObjectTakesFirstFields ==
    (call.op = "ParseData" /\ "form" \in DOMAIN call) =>
        /\ call.res.ok
        /\ NameD \in DOMAIN call.res.val.o
        /\ ObjectDecoded(call) = FirstFields(call.values, Min(Len(call.values), call.k))

(***************************************************************************)
(* C20.  The data section holds one entry per field declared and present.  *)
(***************************************************************************)
DataSection(text) ==
    Slice(text, Index(text, DataMarker) + Len(DataMarker), Len(text))

(* An entry starts at each line that is not blank and not indented. *)
EntryLines(section) ==
    SelectSeq(Split(section, <<"\n">>), LAMBDA l : l # <<>> /\ ~IsIndented(l))

NamesOfHeaders(ls) ==
    [i \in DOMAIN ls |-> headerName(Slice(ls[i], 0, Index(ls[i], <<":">>)))]

(* The names of the entries of a data section, in the order of the text. *)
EntryHeaders(section) ==
    NamesOfHeaders(EntryLines(section))

(* The names of a sequence, each once, in the order of first appearance. *)
RECURSIVE Once(_)
Once(names) ==
    IF names = <<>> THEN <<>>
    ELSE <<Head(names)>> \o Once(SelectSeq(Tail(names), LAMBDA n : n # Head(names)))

(* C20: the writer returns no error, and its data section holds exactly    *)
(* one entry for each field both declared and present, in the order of     *)
(* declaration; other fields give no entry and no error.                   *)
OneEntryPerSharedField ==
    (call.op = "WriteMetaDat" /\ Mismatched(call.schema, call.data) = {}) =>
        /\ call.res.ok
        /\ EntryHeaders(DataSection(call.res.s))
              = SelectSeq(Once(call.schema.FieldOrder), LAMBDA n : n \in DOMAIN call.data)

(***************************************************************************)
(* C21.  The validator applies the top-level rules at every nesting level. *)
(***************************************************************************)
(* The rules of the top level at every level: a present field is declared *)
(* and holds the declared kind, a declared field may be absent.            *)
RECURSIVE Conforms(_, _)
Conforms(v, ft) ==
    CASE ft.Type = "array" ->
            /\ v.k = "array"
            /\ \A i \in 1..Len(v.a) : Conforms(v.a[i], ft.ElementType)
      [] ft.Type = "object" ->
            /\ v.k = "object"
            /\ DOMAIN v.o \subseteq DOMAIN ft.ObjectFields
            /\ \A n \in DOMAIN v.o : Conforms(v.o[n], ft.ObjectFields[n])
      [] OTHER -> HasKind(v, ft)

(* C21: inside an object field and inside an array element, a field of     *)
(* another kind than declared and a field that is not declared make the    *)
(* validation fail, and absent declared fields do not.                     *)
NestedRulesApplied ==
    (call.op = "ValidateData" /\ "nested" \in DOMAIN call) =>
        (call.res.ok <=> Conforms(call.nested, call.schema.Fields[NameA]))

(***************************************************************************)
(* C22.  A value with an empty array field round-trips.                    *)
(***************************************************************************)
EmptyArrayFields ==
    IF Converted1 THEN {n \in DOMAIN src.o : src.o[n] = VArr(<<>>)} ELSE {}

(* C22: an empty array field is inferred as an array with an element type, *)
(* and the text written for the value parses back, the field an empty list. *)
EmptyArrayKept ==
    \A n \in EmptyArrayFields :
        /\ doc.schema.Fields[n].Type = "array"
        /\ doc.schema.Fields[n].ElementType # NoType
        /\ doc.res.ok
        /\ ParsedBack =>
              /\ back.res.ok
              /\ n \in DOMAIN back.res.val.o
              /\ back.res.val.o[n] = VArr(<<>>)

(***************************************************************************)
(* C23.  An integer that arrives as a JSON number is written in decimal    *)
(* digits and parses back.                                                 *)
(***************************************************************************)
(* The fields inferred as integers: JSON numbers without a fraction. *)
IntegerFields ==
    IF Converted1
    THEN {n \in DOMAIN src.o : src.o[n].k = "float64" /\ doc.schema.Fields[n].Type = "int"}
    ELSE {}

(* C23: an integer field is written as the decimal digits of its value,    *)
(* and the integer parse of the text read back returns the value.          *)
IntegerInDigits ==
    \A n \in IntegerFields :
        /\ writeField(n, src.o[n], doc.schema.Fields[n], 0).s
              = n \o <<":", "\n">> \o Indent4 \o FormatInt(src.o[n].m)
        /\ ParsedBack =>
              /\ back.res.ok
              /\ n \in DOMAIN back.res.val.o
              /\ back.res.val.o[n] = VInt(src.o[n].m)

(***************************************************************************)
(* C24.  The order of a schema lists each of its fields once.              *)
(***************************************************************************)
(* order lists every name of names, and each once. *)
ListsOnce(order, names) ==
    /\ {order[i] : i \in DOMAIN order} = names
    /\ \A i, j \in DOMAIN order : order[i] = order[j] => i = j

RECURSIVE TypeWellFormed(_)
TypeWellFormed(ft) ==
    CASE ft.Type = "array" -> ft.ElementType # NoType => TypeWellFormed(ft.ElementType)
      [] ft.Type = "object" ->
            /\ ListsOnce(ft.ObjectOrder, DOMAIN ft.ObjectFields)
            /\ \A n \in DOMAIN ft.ObjectFields : TypeWellFormed(ft.ObjectFields[n])
      [] OTHER -> TRUE

SchemaWellFormed(s) ==
    /\ ListsOnce(s.FieldOrder, DOMAIN s.Fields)
    /\ \A n \in DOMAIN s.Fields : TypeWellFormed(s.Fields[n])

(* C24: in every schema parseSchema returns, FieldOrder lists each key of  *)
(* Fields once and ObjectOrder each field of its object type once, also    *)
(* when the text declares a name twice.                                    *)
OrderListsFieldsOnce ==
    (call.op = "parseSchema" /\ call.res.ok) => SchemaWellFormed(call.res.schema)

(***************************************************************************)
(* C25.  ParseData terminates: its cursor strictly increases and stays     *)
(* within the lines.                                                       *)
(***************************************************************************)
InLoop ==
    call.op = "ParseData" /\ call.at = "loop"

HasReturned ==
    call.op = "ParseData" /\ call.at = "returned"

(* The cursor an iteration left is beyond the one it started at and not    *)
(* beyond the number of lines.                                             *)
CursorWithinLines ==
    InLoop => /\ call.i <= Len(call.lines)
              /\ call.i > 0 => call.from < call.i

(* The loop has made no more iterations than the cursor has passed lines,  *)
(* so it makes at most as many as there are lines.                         *)
IterationsBounded ==
    call.op = "ParseData" => call.n <= call.i /\ call.n <= Len(call.lines)

(* An iteration returns or leaves the cursor further on. *)
IterationAdvances ==
    InLoop => (call'.at = "returned" \/ call.i < call'.i)

(* A result is returned with the cursor at the number of lines. *)
ResultAtEnd ==
    (HasReturned /\ call.res.ok) =>
        /\ call.i = Len(call.lines)
        /\ call.res.val = VObj(call.result)

(* C25: every iteration of ParseData's loop returns an error or strictly   *)
(* increases the cursor, the cursor a decoder returns is beyond the one it *)
(* was given and at most the number of lines, the result is returned once  *)
(* the cursor reaches the number of lines; the loop of a call over k lines  *)
(* so makes at most k iterations before the call returns.                  *)
ParseDataTerminates ==
    /\ [](CursorWithinLines /\ IterationsBounded /\ ResultAtEnd)
    /\ [][IterationAdvances]_vars

(* A call has returned its result after a decoder moved the cursor over    *)
(* several lines and an earlier iteration stored another field.            *)
ParseDataTerminatesWitness ==
    /\ HasReturned /\ call.res.ok
    /\ call.i - call.from >= 3
    /\ Cardinality(DOMAIN call.result) >= 2

(***************************************************************************)
(* C26.  The values of a written object line stand at the positions of     *)
(* their fields.                                                           *)
(***************************************************************************)
(* The pipe-separated values of the object line: the line after the header. *)
ObjectLineValues(text) ==
    Split(TrimSpace(DataSectionLines(text)[2]), <<"|">>)

ValuesAtPositions(c, values) ==
    \A i \in 1..c.k :
        FieldPool[i] \in DOMAIN c.obj =>
            i <= Len(values) /\ values[i] = c.obj[FieldPool[i]]

ReadObject(form, v) ==
    IF form = "element" THEN v.o[NameD].a[1].o ELSE v.o[NameD].o

(* C26: on the object line written for a top-level object or an array      *)
(* element, value i is the value of declared field i, also when the object *)
(* lacks declared fields, and the parser gives every written value back to *)
(* the field it came from.                                                 *)
ValuesAligned ==
    (call.op = "WriteMetaDat" /\ "obj" \in DOMAIN call /\ call.res.ok
       /\ DOMAIN call.obj # {}) =>
        /\ ValuesAtPositions(call, ObjectLineValues(call.res.s))
        /\ (back # NoCall /\ back.res.ok) =>
              \A n \in DOMAIN call.obj :
                  /\ n \in DOMAIN ReadObject(call.form, back.res.val)
                  /\ ReadObject(call.form, back.res.val)[n] = VStr(call.obj[n])

(***************************************************************************)
(* C27.  A value ParseData returns conforms to the schema.                 *)
(***************************************************************************)
(* C27: the value ParseData returned under a schema passes ValidateData of *)
(* that schema, every element of an array of a scalar kind being returned  *)
(* with that kind.                                                         *)
ParsedConforms ==
    (call.op = "ParseData" /\ "array" \in DOMAIN call /\ call.res.ok) =>
        /\ \A i \in 1..Len(call.res.val.o[NameA].a) :
              HasKind(call.res.val.o[NameA].a[i], FieldType(call.kind))
        /\ back # NoCall => back.res.ok

(***************************************************************************)
(* C28.  A load that returns an error leaves the Parser's schema as it was. *)
(***************************************************************************)
FailedLoad(c) ==
    c.op \in {"ParseSchema", "ParseMetaDat"} /\ ~c.res.ok

(* C28: when ParseSchema or ParseMetaDat returns an error, the schema the  *)
(* Parser holds after the call is the one it held before it.               *)
SchemaKeptOnError ==
    [][FailedLoad(call') => parser' = parser]_vars

(***************************************************************************)
(* C29.  WriteSeparated of a struct does not depend on the schema an       *)
(* earlier call left in the Writer.                                        *)
(***************************************************************************)
(* C29: after any earlier calls, WriteSeparated of a struct returns what a *)
(* fresh Writer returns for it: the schema text inferred from the struct   *)
(* and the data text of all its fields.                                    *)
SeparatedAsFresh ==
    (call.op = "WriteSeparated" /\ ~call.asMap) =>
        call.res = writeSeparated(InferSchemaFromJSON(call.v, call.ord), call.v.o)

(***************************************************************************)
(* C30.  The data section may be indented one level further.               *)
(***************************************************************************)
(* C30: ParseData returns for a data section in the writer's layout and    *)
(* for the same section indented one level further the same result.        *)
IndentationIgnored ==
    (call.op = "ParseData" /\ back # NoCall) =>
        /\ back.res.ok = call.res.ok
        /\ call.res.ok => back.res.val = call.res.val

====
